---- MODULE Spec2Model ----
(***************************************************************************)
(* Lumino product-photo chatbot: the WhatsApp webhook handler              *)
(* (src/app/api/whatsapp/route.ts), its image carry-over cache, and the    *)
(* JSON chat endpoint (src/app/api/chat/route.ts, current version).        *)
(*                                                                         *)
(* A text is a sequence of one-character strings, so toLowerCase and       *)
(* String.prototype.includes are computed character by character.          *)
(* Each handler invocation is a process that is suspended at every await;  *)
(* an action is the synchronous code between two awaits.                   *)
(***************************************************************************)
EXTENDS Integers, Sequences, FiniteSets, TLC

(***************************************************************************)
(* Bounds of the model                                                     *)
(***************************************************************************)
\* number of handler invocations that may be in flight at once
MaxInFlight == 2
\* webhook deliveries over a whole run
MaxTurns == 2
\* webhook deliveries of one sender in a row
MaxSenderTurns == 3
\* clock advances over a whole run
MaxTicks == 1
\* characters of a value extracted for an append-type field
MaxValueLen == 3
\* merges into one append-type field over a whole run
MaxMerges == 2
\* rows inserted into chat_messages over a whole run
MaxRows == 4
\* runs of extractAndUpdateProfile over a whole run
MaxExtractions == 2
\* turns whose end is followed next to their side tasks
MaxSideTurns == 1
\* messages the web client sends
MaxWebSends == 2
\* rows ever written to one conversation
MaxStoredRows == 52
\* turns of one identity whose profile extraction is followed
MaxProfileTurns == 3
\* calls of getOrCreateWhatsAppUser for one phone number
MaxUserCalls == 4

(***************************************************************************)
(* Text: toLowerCase and includes                                          *)
(***************************************************************************)
UpperToLower ==
    { <<"A", "a">>, <<"B", "b">>, <<"C", "c">>, <<"D", "d">>, <<"E", "e">>, <<"F", "f">>,
      <<"G", "g">>, <<"H", "h">>, <<"I", "i">>, <<"J", "j">>, <<"K", "k">>, <<"L", "l">>,
      <<"M", "m">>, <<"N", "n">>, <<"O", "o">>, <<"P", "p">>, <<"Q", "q">>, <<"R", "r">>,
      <<"S", "s">>, <<"T", "t">>, <<"U", "u">>, <<"V", "v">>, <<"W", "w">>, <<"X", "x">>,
      <<"Y", "y">>, <<"Z", "z">>, <<"Ä", "ä">>, <<"Ö", "ö">>, <<"Ü", "ü">> }

LowerChar(c) ==
    IF \E p \in UpperToLower : p[1] = c
    THEN (CHOOSE p \in UpperToLower : p[1] = c)[2]
    ELSE c

toLowerCase(s) ==
    [i \in 1..Len(s) |-> LowerChar(s[i])]

includes(s, k) ==
    \E i \in 0..(Len(s) - Len(k)) : SubSeq(s, i + 1, i + Len(k)) = k

DirectKeywords ==
    { <<"d", "i", "r", "e", "k", "t">>,
      <<"l", "o", "s", "l", "e", "g", "e", "n">>,
      <<"g", "e", "n", "e", "r", "i", "e", "r">>,
      <<"e", "r", "s", "t", "e", "l", "l">>,
      <<"m", "a", "c", "h", " ", "m", "i", "r">>,
      <<"z", "e", "i", "g", " ", "m", "i", "r">> }

StyleKeywords ==
    { <<"h", "i", "n", "t", "e", "r", "g", "r", "u", "n", "d">>,
      <<"s", "z", "e", "n", "e">>,
      <<"f", "o", "t", "o">>,
      <<"s", "t", "i", "l">>,
      <<"m", "i", "n", "i", "m", "a", "l", "i", "s", "t">>,
      <<"n", "a", "t", "u", "r">>,
      <<"s", "t", "u", "d", "i", "o">>,
      <<"m", "a", "r", "m", "o", "r">>,
      <<"w", "e", "i", "ß">>,
      <<"w", "e", "i", "s", "s">>,
      <<"s", "c", "h", "w", "a", "r", "z">>,
      <<"h", "o", "l", "z">>,
      <<"l", "u", "x", "u", "s">>,
      <<"e", "l", "e", "g", "a", "n", "t">>,
      <<"m", "o", "d", "e", "r", "n">>,
      <<"p", "r", "o", "f", "e", "s", "s", "i", "o", "n", "e", "l", "l">> }

\* route.ts:314-323, messageText = message.body.toLowerCase()
hasDirectKeywords(body) ==
    \E k \in DirectKeywords : includes(toLowerCase(body), k)

\* a changed copy of hasStyleDescription: the body is not lower-cased
hasStyleDescription_caseSensitive(hasImage, body) ==
    hasImage /\ \E k \in StyleKeywords : includes(body, k)

\* route.ts:326-343
hasStyleDescription(hasImage, body) ==
    hasImage /\ \E k \in StyleKeywords : includes(toLowerCase(body), k)

\* changed copies of shouldGenerateImage: without the fresh-image guard,
\* without the direct keywords, without the need for an image
shouldGenerateImage_ignoresFresh(hasImage, freshImageInMessage, body) ==
    /\ hasImage
    /\ (hasDirectKeywords(body) \/ hasStyleDescription(hasImage, body))

shouldGenerateImage_styleOnly(hasImage, freshImageInMessage, body) ==
    /\ hasImage
    /\ ~freshImageInMessage
    /\ hasStyleDescription(hasImage, body)

shouldGenerateImage_withoutImage(hasImage, freshImageInMessage, body) ==
    /\ ~freshImageInMessage
    /\ (hasDirectKeywords(body) \/ hasStyleDescription(hasImage, body))

\* route.ts:347
shouldGenerateImage(hasImage, freshImageInMessage, body) ==
    /\ hasImage
    /\ ~freshImageInMessage
    /\ (hasDirectKeywords(body) \/ hasStyleDescription(hasImage, body))

(***************************************************************************)
(* Inbound messages                                                        *)
(***************************************************************************)
BodyEmpty == <<>>
BodyGreeting == <<"H", "a", "l", "l", "o">>
BodyDirect == <<"D", "i", "r", "e", "k", "t", " ", "l", "o", "s", "l", "e", "g", "e", "n">>
BodyStyle == <<"a", "u", "f", " ", "M", "a", "r", "m", "o", "r">>

Bodies == {BodyEmpty, BodyGreeting, BodyDirect, BodyStyle}

Phones == {"+4915100", "+4915200"}

\* the phone number followed where one sender is looked at
Sender == "+4915100"

\* MediaContentType0 of the webhook; "none" when no MediaUrl0 was sent
MediaTypes == {"none", "image/jpeg"}

\* route.ts:240, message.mediaUrl && message.mediaContentType?.startsWith('image')
isImageAttachment(media) ==
    media \in {"image/jpeg", "image/png"}

Messages == [from : Phones, body : Bodies, media : MediaTypes]

(***************************************************************************)
(* Fixed texts of the handler                                              *)
(***************************************************************************)
\* what the model wrote, when it wrote anything
MODEL_TEXT == "<text parts of the model response>"
\* route.ts:408
TEXT_IMAGE_READY == "Hier ist dein professionelles Produktfoto!"
\* route.ts:411
TEXT_NO_IMAGE == "Das Bild konnte nicht generiert werden. Bitte versuche es erneut."
\* route.ts:417
TEXT_GENERATION_UNAVAILABLE == "Die Bildgenerierung ist gerade nicht verfügbar. Bitte versuche es in ein paar Minuten erneut."
\* route.ts:438
TEXT_NOT_PROCESSED == "Entschuldigung, ich konnte deine Nachricht nicht verarbeiten. Bitte versuche es erneut."
\* route.ts:462
TEXT_IMAGE_CAPTION == "Hier ist dein Produktfoto:"
\* route.ts:476
TEXT_UPLOAD_FAILED == "Das Bild wurde generiert, aber konnte nicht gesendet werden. Besuche lumino.studio um es anzusehen."
\* route.ts:310
TEXT_IMAGE_SENT == <<"(", "B", "i", "l", "d", " ", "g", "e", "s", "e", "n", "d", "e", "t", ")">>

FallbackTexts == {TEXT_NO_IMAGE, TEXT_GENERATION_UNAVAILABLE, TEXT_NOT_PROCESSED}

\* route.ts:489-494 and 498-504: the empty TwiML document, status 200
TwiMLResponse ==
    [status |-> 200, contentType |-> "text/xml", body |-> "<Response></Response>"]

\* what the framework gets when the handler's promise rejects
UncaughtException == [status |-> 500, contentType |-> "none", body |-> "exception"]

NoResponse == [status |-> 0, contentType |-> "none", body |-> "pending"]

(***************************************************************************)
(* Carry-over cache: userImages, route.ts:95-96                            *)
(***************************************************************************)
\* 30 * 60 * 1000 ms, route.ts:291
TTL_MS == 30 * 60 * 1000

\* a phone number without entry in the Map
NoEntry == [base64 |-> 0, mimeType |-> "none", timestamp |-> 0]

\* a changed copy of storedImageIsFresh: an entry of exactly 30 minutes counts
storedImageIsFresh_inclusive(storedImage, t) ==
    t - storedImage.timestamp <= TTL_MS

\* route.ts:291
storedImageIsFresh(storedImage, t) ==
    t - storedImage.timestamp < TTL_MS

\* a changed copy of storeImage: an entry already there is kept
storeImage_keepsExisting(images, phoneNumber, base64Image, mimeType, t) ==
    IF images[phoneNumber] # NoEntry
    THEN images
    ELSE [images EXCEPT ![phoneNumber] =
             [base64 |-> base64Image, mimeType |-> mimeType, timestamp |-> t]]

\* route.ts:262-266, userImages.set(phoneNumber, {...})
storeImage(images, phoneNumber, base64Image, mimeType, t) ==
    [images EXCEPT ![phoneNumber] =
        [base64 |-> base64Image, mimeType |-> mimeType, timestamp |-> t]]

\* route.ts:303 and 470, userImages.delete(phoneNumber)
deleteImage(images, phoneNumber) ==
    [images EXCEPT ![phoneNumber] = NoEntry]

(***************************************************************************)
(* The JSON chat endpoint, src/app/api/chat/route.ts:167-535               *)
(***************************************************************************)
WebDirectKeywords ==
    { <<"d", "i", "r", "e", "k", "t">>,
      <<"l", "o", "s", "l", "e", "g", "e", "n">>,
      <<"g", "e", "n", "e", "r", "i", "e", "r", " ", "j", "e", "t", "z", "t">>,
      <<"m", "a", "c", "h", " ", "e", "i", "n", "f", "a", "c", "h">>,
      <<"s", "t", "a", "r", "t", "e", "n">> }

WebQuestionKeywords ==
    { <<"f", "r", "a", "g", "e", "n">>,
      <<"r", "ü", "c", "k", "f", "r", "a", "g", "e", "n">> }

WebRequestKeywords ==
    { <<"m", "i", "n", "i", "m", "a", "l", "i", "s", "t">>,
      <<"f", "o", "t", "o">>,
      <<"b", "i", "l", "d">>,
      <<"h", "i", "n", "t", "e", "r", "g", "r", "u", "n", "d">>,
      <<"s", "z", "e", "n", "e">>,
      <<"s", "t", "u", "d", "i", "o">>,
      <<"n", "a", "t", "u", "r">>,
      <<"m", "a", "r", "m", "o", "r">>,
      <<"w", "e", "i", "ß">>,
      <<"s", "c", "h", "w", "a", "r", "z">> }

WebImageKeywords ==
    { <<"e", "r", "s", "t", "e", "l", "l">>,
      <<"g", "e", "n", "e", "r", "i", "e", "r">>,
      <<"m", "a", "c", "h", " ", "m", "i", "r">>,
      <<"z", "e", "i", "g", " ", "m", "i", "r">>,
      <<"ä", "n", "d", "e", "r", "e">>,
      <<"b", "e", "a", "r", "b", "e", "i", "t", "e">> }

WebImageStyleKeywords ==
    { <<"h", "i", "n", "t", "e", "r", "g", "r", "u", "n", "d">>,
      <<"s", "z", "e", "n", "e">>,
      <<"f", "o", "t", "o">>,
      <<"b", "i", "l", "d">>,
      <<"s", "t", "i", "l">>,
      <<"m", "i", "n", "i", "m", "a", "l", "i", "s", "t">>,
      <<"n", "a", "t", "u", "r">>,
      <<"s", "t", "u", "d", "i", "o">> }


\* String.prototype.trim
RECURSIVE trimStart(_)
trimStart(s) ==
    IF s # <<>> /\ Head(s) = " " THEN trimStart(Tail(s)) ELSE s

RECURSIVE trimEnd(_)
trimEnd(s) ==
    IF s # <<>> /\ s[Len(s)] = " " THEN trimEnd(SubSeq(s, 1, Len(s) - 1)) ELSE s

trim(s) ==
    trimEnd(trimStart(s))

\* chat/route.ts:335, message.trim().split(/\s+/).length: one piece more
\* than there are runs of white space; ''.split gives ['']
wordCount(message) ==
    LET t == trim(message)
    IN  1 + Cardinality({i \in 1..Len(t) : t[i] = " " /\ t[i + 1] # " "})

\* chat/route.ts:336
MIN_WORDS == 12

isShortPrompt(message) ==
    wordCount(message) < MIN_WORDS

\* chat/route.ts:339-344
userWantsDirectGeneration(message) ==
    \E k \in WebDirectKeywords : includes(toLowerCase(message), k)

\* chat/route.ts:347-349
userWantsQuestions(message) ==
    \E k \in WebQuestionKeywords : includes(toLowerCase(message), k)

\* chat/route.ts:332
isImageOnlyUpload(req) ==
    req.image /\ (~req.hasMessage \/ req.message = <<>> \/ trim(req.message) = <<>>)

\* chat/route.ts:352-370: the latest user message of the history that
\* reads like an image request, or ''
originalImageRequest(req) ==
    LET h == req.history
        hits == {i \in 1..Len(h) :
                    /\ h[i].role = "user"
                    /\ Len(h[i].content) > 3
                    /\ \E k \in WebRequestKeywords : includes(toLowerCase(h[i].content), k)}
    IN  IF userWantsDirectGeneration(req.message) /\ Len(h) > 0 /\ hits # {}
        THEN h[CHOOSE i \in hits : \A j \in hits : j <= i].content
        ELSE <<>>

\* chat/route.ts:373-390
hasImageKeywords(req) ==
    /\ ~isImageOnlyUpload(req)
    /\ \/ \E k \in WebImageKeywords : includes(toLowerCase(req.message), k)
       \/ /\ req.image
          /\ \E k \in WebImageStyleKeywords : includes(toLowerCase(req.message), k)

\* a changed copy of isImageRequest: the length of the prompt is not looked at
isImageRequest_anyLength(req) ==
    \/ hasImageKeywords(req)
    \/ userWantsDirectGeneration(req.message) /\ originalImageRequest(req) # <<>>

\* chat/route.ts:395-397
isImageRequest(req) ==
    \/ hasImageKeywords(req)
         /\ (~isShortPrompt(req.message) \/ userWantsDirectGeneration(req.message))
    \/ userWantsDirectGeneration(req.message) /\ originalImageRequest(req) # <<>>

(* Errors: the status (0 when the error has none) and the message *)
NoError == [status |-> 0, message |-> <<>>]
ErrTooManyRequests == [status |-> 429, message |-> <<"T", "o", "o", " ", "M", "a", "n", "y", " ", "R", "e", "q", "u", "e", "s", "t", "s">>]
ErrQuota == [status |-> 0, message |-> <<"R", "E", "S", "O", "U", "R", "C", "E", "_", "E", "X", "H", "A", "U", "S", "T", "E", "D">>]
ErrForbidden == [status |-> 403, message |-> <<"F", "o", "r", "b", "i", "d", "d", "e", "n">>]
ErrTimeout == [status |-> 0, message |-> <<"E", "T", "I", "M", "E", "D", "O", "U", "T">>]
ErrSafety == [status |-> 0, message |-> <<"S", "A", "F", "E", "T", "Y">>]
ErrInternal == [status |-> 500, message |-> <<"I", "n", "t", "e", "r", "n", "a", "l", " ", "e", "r", "r", "o", "r">>]
\* request.json() on a body that is no JSON
ErrSyntax == [status |-> 0, message |-> <<"U", "n", "e", "x", "p", "e", "c", "t", "e", "d", " ", "t", "o", "k", "e", "n">>]
\* a property read on undefined
ErrType == [status |-> 0, message |-> <<"C", "a", "n", "n", "o", "t", " ", "r", "e", "a", "d", " ", "p", "r", "o", "p", "e", "r", "t", "i", "e", "s", " ", "o", "f", " ", "u", "n", "d", "e", "f", "i", "n", "e", "d">>]

ModelErrors ==
    {ErrTooManyRequests, ErrQuota, ErrForbidden, ErrTimeout, ErrSafety, ErrInternal}

\* chat/route.ts:181-185
isRetryableError(error) ==
    \/ error.status = 429
    \/ includes(error.message, <<"4", "2", "9">>)
    \/ includes(error.message, <<"R", "E", "S", "O", "U", "R", "C", "E", "_", "E", "X", "H", "A", "U", "S", "T", "E", "D">>)

\* chat/route.ts:259, 264, 269, 274, 278, each without its leading emoji
MSG_RATE_LIMIT == "Die KI ist gerade sehr beschäftigt! Ich habe es mehrfach versucht, aber das Limit ist erreicht. Bitte warte 1-2 Minuten und versuche es dann erneut."
MSG_AUTH == "Es gibt ein Problem mit der API-Konfiguration. Bitte kontaktiere den Support."
MSG_NETWORK == "Verbindungsproblem. Bitte überprüfe deine Internetverbindung und versuche es erneut."
MSG_SAFETY == "Diese Anfrage konnte nicht verarbeitet werden. Bitte versuche eine andere Beschreibung."
MSG_GENERIC == "Etwas ist schiefgelaufen. Bitte versuche es in ein paar Sekunden erneut."
\* chat/route.ts:470 and 524
MSG_IMAGE_READY == "Hier ist dein generiertes Produktfoto!"
MSG_NO_ANSWER == "Ich konnte keine Antwort generieren. Bitte versuche es erneut."
\* chat/route.ts:161, the earlier version of the handler
MSG_RAW_ERROR == "Es tut mir leid, es gab einen Fehler: "

\* chat/route.ts:475, appended after a generated image
MSG_SOCIAL_OFFER == "Soll ich dir auch einen passenden Social Media Text für dieses Produktfoto erstellen?"

\* a message of the response: a text of the handler or of the model,
\* whatever the handler interpolated into it, and the text appended to it
Plain(text) == [text |-> text, detail |-> <<>>, appended |-> ""]

\* a changed copy of getErrorMessage: the error text is passed on, as in
\* the earlier version of the handler (chat/route.ts:161)
getErrorMessage_raw(error) ==
    [text |-> MSG_RAW_ERROR, detail |-> error.message, appended |-> ""]

\* chat/route.ts:253-279
getErrorMessage(error) ==
    IF isRetryableError(error)
    THEN Plain(MSG_RATE_LIMIT)
    ELSE IF \/ error.status \in {401, 403}
            \/ includes(error.message, <<"A", "P", "I", "_", "K", "E", "Y">>)
    THEN Plain(MSG_AUTH)
    ELSE IF \/ includes(error.message, <<"t", "i", "m", "e", "o", "u", "t">>)
            \/ includes(error.message, <<"E", "T", "I", "M", "E", "D", "O", "U", "T">>)
            \/ includes(error.message, <<"n", "e", "t", "w", "o", "r", "k">>)
    THEN Plain(MSG_NETWORK)
    ELSE IF \/ includes(error.message, <<"s", "a", "f", "e", "t", "y">>)
            \/ includes(error.message, <<"b", "l", "o", "c", "k", "e", "d">>)
            \/ includes(error.message, <<"S", "A", "F", "E", "T", "Y">>)
    THEN Plain(MSG_SAFETY)
    ELSE Plain(MSG_GENERIC)

\* a settled model call: the text and image parts, or the error it threw
CallOutcomes ==
    [threw : {FALSE}, text : {MODEL_TEXT, ""}, image : BOOLEAN, error : {NoError}]
        \cup [threw : {TRUE}, text : {""}, image : {FALSE}, error : ModelErrors]

Thrown(error) == [threw |-> TRUE, text |-> "", image |-> FALSE, error |-> error]

\* chat/route.ts:218-250: the primary model under withRetry, then the
\* fallback model, whose error propagates
generateText(primary, fallback) ==
    IF ~primary.threw
    THEN [primary EXCEPT !.image = FALSE]
    ELSE [fallback EXCEPT !.image = FALSE]

\* chat/route.ts:444-481: the generation branch catches its own errors
generateImage(imageCall) ==
    IF imageCall.threw
    THEN [message |-> getErrorMessage(imageCall.error), generatedImage |-> FALSE]
    ELSE [message |->
              [Plain(IF imageCall.text = "" THEN MSG_IMAGE_READY ELSE imageCall.text)
                  EXCEPT !.appended = IF imageCall.image THEN MSG_SOCIAL_OFFER ELSE ""],
          generatedImage |-> imageCall.image]

\* chat/route.ts:523-526
okResponse(text, generatedImage) ==
    [status |-> 200,
     message |-> IF text.text = "" THEN Plain(MSG_NO_ANSWER) ELSE text,
     generatedImage |-> generatedImage]

\* chat/route.ts:528-534, the outermost catch
errorResponse(error) ==
    [status |-> 200, message |-> getErrorMessage(error), generatedImage |-> FALSE]

\* chat/route.ts:327-420 and 483-488: where the handler goes before it
\* calls a model. message.trim() and history.length throw on undefined
chatBranch(req) ==
    IF req.malformed
    THEN "jsonThrows"
    ELSE IF ~req.hasMessage
    THEN "typeError"
    ELSE IF userWantsDirectGeneration(req.message) /\ ~req.hasHistory
    THEN "typeError"
    ELSE IF isImageOnlyUpload(req)
    THEN "imageOnly"
    ELSE IF isImageRequest(req)
    THEN "generate"
    ELSE IF ~req.hasHistory
    THEN "typeError"
    ELSE "chat"

\* chat/route.ts:399-534: the response, and whether the image model ran
chatRespond(branch, primary, fallback, imageCall) ==
        IF branch = "jsonThrows"
        THEN [response |-> errorResponse(ErrSyntax), imageModelCalled |-> FALSE]
        ELSE IF branch = "typeError"
        THEN [response |-> errorResponse(ErrType), imageModelCalled |-> FALSE]
        ELSE IF branch = "generate"
        THEN LET g == generateImage(imageCall)
             IN  [response |-> okResponse(g.message, g.generatedImage),
                  imageModelCalled |-> TRUE]
        ELSE LET t == generateText(primary, fallback)
             IN  [response |-> IF t.threw THEN errorResponse(t.error)
                               ELSE okResponse(Plain(t.text), FALSE),
                  imageModelCalled |-> FALSE]

\* chat/route.ts:327-535
chatPOST(req, primary, fallback, imageCall) ==
    chatRespond(chatBranch(req), primary, fallback, imageCall)

WebGreeting ==
    <<"H", "a", "l", "l", "o">>

WebDirect ==
    <<" ", "D", "i", "r", "e", "k", "t", " ", "l", "o", "s", "l", "e", "g", "e", "n", " ">>

WebShortRequest ==
    <<"e", "r", "s", "t", "e", "l", "l", "e", " ", "e", "i", "n", " ", "F", "o", "t", "o">>

WebLongRequest ==
    <<"E", "r", "s", "t", "e", "l", "l", "e", " ", "b", "i", "t", "t", "e", " ", "e", "i",
      "n", " ", "F", "o", "t", "o", " ", "v", "o", "n", " ", "m", "e", "i", "n", "e", "m",
      " ", "P", "r", "o", "d", "u", "k", "t", " ", "a", "u", "f", " ", "e", "i", "n", "e",
      "m", " ", "T", "i", "s", "c", "h", " ", "a", "u", "s", " ", "h", "e", "l", "l", "e",
      "m", " ", "H", "o", "l", "z">>

WebEarlierRequest ==
    <<"F", "o", "t", "o", " ", "a", "u", "f", " ", "M", "a", "r", "m", "o", "r">>

WebMessages == {<<>>, WebGreeting, WebDirect, WebShortRequest, WebLongRequest}

WebHistories ==
    { <<>>,
      << [role |-> "user", content |-> WebEarlierRequest],
         [role |-> "assistant", content |-> WebGreeting] >> }

MalformedRequest ==
    [malformed |-> TRUE, hasMessage |-> FALSE, message |-> <<>>, image |-> FALSE,
     hasHistory |-> FALSE, history |-> <<>>]

\* the bodies a client may post: no JSON at all, or an object whose
\* message and history may be missing
ChatRequests ==
    {MalformedRequest}
        \cup {q \in [malformed : {FALSE}, hasMessage : BOOLEAN, message : WebMessages,
                     image : BOOLEAN, hasHistory : BOOLEAN, history : WebHistories] :
                 /\ ~q.hasMessage => q.message = <<>>
                 /\ ~q.hasHistory => q.history = <<>>}

NoChatResponse == [status |-> 0, message |-> Plain(""), generatedImage |-> FALSE]

\* a model call the handler did not make
NotCalled == [threw |-> FALSE, text |-> "", image |-> FALSE, error |-> NoError]

TextOutcomes == {o \in CallOutcomes : ~o.image}

\* chatBranch of every request body, computed once
BranchOf == [req \in ChatRequests |-> chatBranch(req)]

\* route.ts:355 and 399: null, or the data URL of the image the model made
\* of the input image numbered source (0: the request carried no image)
NoDataUrl == <<>>
dataUrl(source) == <<"data:image/png;base64", source>>

(***************************************************************************)
(* mergeAppendField, profile-extractor.ts:35-42                            *)
(***************************************************************************)
\* String.prototype.split(','): the pieces between the commas
RECURSIVE split(_)
split(s) ==
    IF \A i \in 1..Len(s) : s[i] # ","
    THEN <<s>>
    ELSE LET c == CHOOSE i \in 1..Len(s) : s[i] = "," /\ \A j \in 1..(i - 1) : s[j] # ","
         IN  <<SubSeq(s, 1, c - 1)>> \o split(SubSeq(s, c + 1, Len(s)))

\* Array.prototype.join(', ')
RECURSIVE join(_)
join(items) ==
    IF items = <<>> THEN <<>>
    ELSE IF Len(items) = 1 THEN items[1]
    ELSE items[1] \o <<",", " ">> \o join(Tail(items))

\* a column of customer_profiles that holds NULL
NullValue == <<"null">>

\* a changed copy of mergeAppendField: the new value is appended whole
mergeAppendField_appendAll(existing, newValue) ==
    IF existing = NullValue \/ existing = <<>>
    THEN newValue
    ELSE existing \o <<",", " ">> \o newValue

\* profile-extractor.ts:35-42
mergeAppendField(existing, newValue) ==
    IF existing = NullValue \/ existing = <<>>
    THEN newValue
    ELSE LET existingItems ==
                 [i \in 1..Len(split(existing)) |-> toLowerCase(trim(split(existing)[i]))]
             newItems == [i \in 1..Len(split(newValue)) |-> trim(split(newValue)[i])]
             isNew(item) ==
                 \A i \in 1..Len(existingItems) : existingItems[i] # toLowerCase(item)
             unique == SelectSeq(newItems, isNew)
         IN  IF Len(unique) = 0
             THEN existing
             ELSE existing \o <<",", " ">> \o join(unique)

\* the characters of the field values: two casings of one letter, another
\* letter, the separator and white space
FieldAlphabet == {"a", "A", "b", ",", " "}

\* the values the extraction model may write for an append-type field
FieldValues == UNION {[1..n -> FieldAlphabet] : n \in 0..MaxValueLen}

\* no merge yet: the column is NULL
NoField == [stored |-> NullValue, before |-> NullValue, newValue |-> NullValue,
            merges |-> 0, repeated |-> FALSE]

(***************************************************************************)
(* extractAndUpdateProfile, profile-extractor.ts:44-106                    *)
(***************************************************************************)
REPLACE_FIELDS == {"customer_name", "company_name", "address_form"}

APPEND_FIELDS == {"preferred_styles", "brand_colors", "favorite_backgrounds",
                  "image_format_preferences", "special_notes"}

\* the keys of the extracted objects: a replace field, an append field and
\* a key that is not a field of the profile
ExtractedKeys == {"customer_name", "brand_colors", "hobby"}

\* a key the extracted object does not hold
Absent == [kind |-> "absent", text |-> <<>>]

\* the values of a key of the parsed JSON: strings (the empty one too)
\* and a number
ExtractedValues ==
    [kind : {"string"}, text : {<<>>, <<"a">>, <<"b">>}]
        \cup {[kind |-> "number", text |-> <<"7">>]}

\* the objects JSON.parse may return
Extractions == [ExtractedKeys -> ExtractedValues \cup {Absent}]

\* what the call of the model and the parsing of its answer come to
ExtractionOutcomes ==
    [kind : {"modelError", "noText", "badJson", "jsonNull"},
     extracted : {[key \in ExtractedKeys |-> Absent]}]
        \cup [kind : {"object"}, extracted : Extractions]

\* Object.keys(extracted)
keysOf(extracted) == {key \in ExtractedKeys : extracted[key] # Absent}

\* a changed copy of keepsValue: the type of the value is not looked at
keepsValue_anyType(value) == value.text # <<>>

\* profile-extractor.ts:86: !(!value || typeof value !== 'string')
keepsValue(value) == value.kind = "string" /\ value.text # <<>>

\* a key without an entry in updates
NoUpdate == <<"none">>

\* a changed copy of updateOf: a replace field that holds a value keeps it
updateOf_keepsStored(key, value, currentProfile) ==
    IF ~keepsValue(value) THEN NoUpdate
    ELSE IF key \in REPLACE_FIELDS
         THEN IF currentProfile[key] = NullValue THEN value.text ELSE currentProfile[key]
    ELSE IF key \in APPEND_FIELDS THEN mergeAppendField(currentProfile[key], value.text)
    ELSE NoUpdate

\* profile-extractor.ts:85-97: the entry of updates for one extracted key
updateOf(key, value, currentProfile) ==
    IF ~keepsValue(value) THEN NoUpdate
    ELSE IF key \in REPLACE_FIELDS THEN value.text
    ELSE IF key \in APPEND_FIELDS THEN mergeAppendField(currentProfile[key], value.text)
    ELSE NoUpdate

\* profile-extractor.ts:83-97: updates
updatesOf(extracted, currentProfile) ==
    [key \in ExtractedKeys |-> updateOf(key, extracted[key], currentProfile)]

NoUpdates == [key \in ExtractedKeys |-> NoUpdate]

\* whatsapp-db.ts:73-84: the row after the upsert
upsert(profile, updates) ==
    [key \in ExtractedKeys |->
        IF updates[key] = NoUpdate THEN profile[key] ELSE updates[key]]

\* profile-extractor.ts:50 and 103-105: how the promise settles after the
\* body returned or threw
extractSettles(threw) == "resolved"

\* no row, or a row of NULL columns
NoProfile == [key \in ExtractedKeys |-> NullValue]

NoExtraction == [at |-> "idle", currentProfile |-> NoProfile,
                 extracted |-> [key \in ExtractedKeys |-> Absent],
                 updates |-> NoUpdates, outcome |-> "none"]

NoExtract == [profile |-> NoProfile, runs |-> 0, run |-> NoExtraction]

\* profile-extractor.ts:44-67: the extractor is called with the profile the
\* caller holds and calls the model
extractCalled(e) ==
    [e EXCEPT !.runs = @ + 1,
              !.run = [NoExtraction EXCEPT !.at = "model", !.currentProfile = e.profile]]

(***************************************************************************)
(* chat_messages and trimChatHistory, whatsapp-db.ts:113-168               *)
(***************************************************************************)
\* the (user_id, channel) pairs of the rows: one history, the history of
\* another user and the web history of the same user
HistoryKeys == {<<"u1", "whatsapp">>, <<"u2", "whatsapp">>, <<"u1", "web">>}

\* the values of the parameter max
TrimCaps == {1, 2}

\* the rows of one user and channel: .eq('user_id', ..).eq('channel', ..)
rowsOf(rows, key) == {row \in rows : row.key = key}

\* .order('created_at', {ascending: false}).range(max - 1, max - 1): the
\* created_at of the row at offset max - 1 from the newest, 0 when there
\* is no such row; rows of equal created_at come in any order and give
\* the same value
keepFromOf(rows, key, max) ==
    LET mine == rowsOf(rows, key)
        newer(t) == Cardinality({row \in mine : row.created_at > t})
        upTo(t) == Cardinality({row \in mine : row.created_at >= t})
        cuts == {row.created_at : row \in {x \in mine : newer(x.created_at) < max
                                                       /\ upTo(x.created_at) >= max}}
    IN  IF cuts = {} THEN 0 ELSE CHOOSE t \in cuts : TRUE

\* .delete().eq('user_id', ..).eq('channel', ..).lt('created_at', keepFrom)
trimDelete(rows, key, keepFrom) ==
    {row \in rows : ~(row.key = key /\ row.created_at < keepFrom)}

NoTrim == [at |-> "idle", key |-> <<"none", "none">>, max |-> 0, count |-> 0,
           keepFrom |-> 0, before |-> {}, failed |-> FALSE, inserted |-> FALSE]

\* whatsapp-db.ts:119-126: the table after the insert of a row, whose
\* created_at the database sets: the time of the row before it or a
\* later one (the index of part_000:193-194 is not a unique one)
insertRow(h, key, later) ==
    LET at == IF later THEN h.clock + 1 ELSE h.clock
    IN  [h EXCEPT !.rows = @ \cup {[id |-> h.inserts + 1, key |-> key, created_at |-> at]},
                  !.inserts = @ + 1,
                  !.clock = at,
                  !.trim.inserted = h.trim.at # "idle"]

\* whatsapp-db.ts:134-143: trimChatHistory is called, the count query is sent
trimCalled(h, key, max) ==
    [h EXCEPT !.trim = [NoTrim EXCEPT !.at = "count", !.key = key, !.max = max,
                                      !.before = h.rows]]

\* an empty table, no trim running
NoHistory == [rows |-> {}, inserts |-> 0, clock |-> 1, trim |-> NoTrim]

(***************************************************************************)
(* The end of a turn, route.ts:441-450                                     *)
(***************************************************************************)
\* the side tasks
SideTasks == {"trimChatHistory", "extractAndUpdateProfile"}

\* a changed copy of awaitedBeforeReply: both side tasks are awaited
awaitedBeforeReply_both == SideTasks

\* route.ts:446-447: the side tasks whose promise is awaited before
\* sendWhatsAppMessage is called: none, both calls only attach a catch
awaitedBeforeReply == {}

\* the user and channel of the turn
TurnKey == <<"u1", "whatsapp">>

NoTurn == [at |-> "idle", turns |-> 0]

(***************************************************************************)
(* withRetry, route.ts:98-125 and chat/route.ts:188-212                     *)
(***************************************************************************)
\* route.ts:111-113, the test inside withRetry of the WhatsApp handler
isRateLimit(error) ==
    \/ error.status = 429
    \/ includes(error.message, <<"4", "2", "9">>)
    \/ includes(error.message, <<"R", "E", "S", "O", "U", "R", "C", "E", "_", "E", "X", "H", "A", "U", "S", "T", "E", "D">>)

\* the two copies of withRetry and the test each of them applies
RetryCopies == {"whatsapp", "chat"}
retryable(copy, error) ==
    IF copy = "whatsapp" THEN isRateLimit(error) ELSE isRetryableError(error)

\* route.ts:101-102, the defaults every caller uses
DEFAULT_MAX_RETRIES == 3
INITIAL_DELAY_MS == 2000

\* JavaScript's Math.pow(2, attempt)
RECURSIVE pow2(_)
pow2(n) == IF n = 0 THEN 1 ELSE 2 * pow2(n - 1)

\* route.ts:119, initialDelay * Math.pow(2, attempt)
retryDelay(initialDelay, attempt) == initialDelay * pow2(attempt)

\* a changed copy of retryShouldGiveUp: every error is retried
retryShouldGiveUp_anyError(copy, error, attempt, maxRetries) ==
    attempt = maxRetries

\* route.ts:115, !isRateLimit || attempt === maxRetries
retryShouldGiveUp(copy, error, attempt, maxRetries) ==
    ~retryable(copy, error) \/ attempt = maxRetries

\* no run of withRetry
NoRetry ==
    [at |-> "idle", copy |-> "none", maxRetries |-> 0, attempt |-> 0,
     calls |-> 0, errors |-> <<>>, delays |-> <<>>, result |-> NoError]

\* the values of maxRetries: the default, and two smaller ones
RetryLimits == {0, 1, DEFAULT_MAX_RETRIES}

(***************************************************************************)
(* The web client: components/Chat.tsx and lib/database                    *)
(***************************************************************************)
\* Chat.tsx: the userId of the signed-in user, or none
WebUserIds == {<<"web", "u1">>, <<>>}

\* whatsapp-db.ts:288 and 305, userId || 'anonymous'
orAnonymous(userId) == IF userId = <<>> THEN <<"anonymous">> ELSE userId

\* Chat.tsx:95-106: the client posts message, image and history
ClientRequests == {q \in ChatRequests : ~q.malformed /\ q.hasMessage /\ q.hasHistory}

\* chat/route.ts:461-464: the data URL the endpoint returns as generatedImage
generatedImageOf(req) == dataUrl(IF req.image THEN 1 ELSE 0)

\* whatsapp-db.ts:283-290: the row saveImageToGallery inserts
galleryRow(imageUrl, userId) ==
    [image_url |-> imageUrl, user_id |-> orAnonymous(userId), archived |-> FALSE]

\* whatsapp-db.ts:301-313 and part_004:281-288: the image_url of the rows
\* of the user, newest first
RECURSIVE getGalleryImages(_, _)
getGalleryImages(rows, userId) ==
    IF rows = <<>> THEN <<>>
    ELSE LET rest == getGalleryImages(SubSeq(rows, 1, Len(rows) - 1), userId)
             last == rows[Len(rows)]
         IN  IF last.user_id = orAnonymous(userId)
             THEN <<last.image_url>> \o rest
             ELSE rest

NoWeb == [at |-> "idle", sends |-> 0, userId |-> <<>>, request |-> MalformedRequest,
          saving |-> <<>>, shown |-> <<>>]

(***************************************************************************)
(* The history window of the WhatsApp handler                              *)
(***************************************************************************)
\* route.ts:212, loadChatHistory(whatsappUserId, 50)
HISTORY_LIMIT == 50

\* route.ts:222, dbHistory.slice(-10)
HISTORY_WINDOW == 10

\* route.ts:446, trimChatHistory(whatsappUserId, 50)
TRIM_MAX == 50

\* whatsapp-db.ts:98-104: the rows of the identity on the whatsapp channel,
\* .order('created_at', {ascending: true}).limit(limit); rows is in the
\* order of created_at
loadChatHistory(rows, limit) ==
    SubSeq(rows, 1, IF Len(rows) < limit THEN Len(rows) ELSE limit)

\* Array.prototype.slice(-n)
sliceFromEnd(s, n) ==
    SubSeq(s, IF Len(s) > n THEN Len(s) - n + 1 ELSE 1, Len(s))

\* route.ts:220-226: the rows whose lines make up 'Bisheriges Gespräch'
historyBlock(dbHistory) ==
    sliceFromEnd(dbHistory, HISTORY_WINDOW)

NoConversation == [rows |-> <<>>, written |-> 0, loads |-> 0, failed |-> FALSE,
                   before |-> <<>>, block |-> <<>>]

(***************************************************************************)
(* Turns of one identity and their profile extraction                      *)
(***************************************************************************)
\* the turns of the identity that may be under way at once
ProfileTurns == {1, 2}

\* the items the extraction model reads out of a message
ExtractedItems == {<<"a">>, <<"b">>}

\* the append-type field the turns write
GrowingField == "brand_colors"

\* the parsed answer of the extraction model: one item for the field
extractedItem(item) ==
    [key \in ExtractedKeys |->
        IF key = GrowingField THEN [kind |-> "string", text |-> item] ELSE Absent]

NoProfileTurn == [at |-> "idle", profile |-> NoProfile, updates |-> NoUpdates]

NoProfiles == [stored |-> NoProfile, started |-> 0,
               run |-> [t \in ProfileTurns |-> NoProfileTurn]]

(***************************************************************************)
(* getOrCreateWhatsAppUser, whatsapp-db.ts:22-43                           *)
(***************************************************************************)
\* the calls for one phone number that may be under way at once
UserCalls == {1, 2}

NoUserCall == [at |-> "idle", returned |-> <<>>]

NoUsers == [row |-> FALSE, started |-> 0, ids |-> {},
            call |-> [c \in UserCalls |-> NoUserCall]]

(***************************************************************************)
(* State                                                                   *)
(***************************************************************************)
Reqs == 1..MaxInFlight

VARIABLES
    pc,           \* where each invocation of POST is suspended
    msg,          \* message of parseWhatsAppWebhook, per invocation
    local,        \* the let/const bindings of POST, per invocation
    response,     \* what the invocation returned to Twilio
    userImages,   \* the module-level Map
    now,          \* Date.now()
    turns,        \* webhook deliveries so far
    received,     \* images fetched from Twilio so far
    storage,      \* objects in the generated-images bucket
    gallery,      \* rows of gallery_images
    chat,         \* the chat endpoint: the last request and its response
    retry,        \* one run of withRetry: attempts, delays, result
    field,        \* one append-type column of one customer_profiles row
    history,      \* the table chat_messages and one run of trimChatHistory
    extract,      \* one row of customer_profiles and one run of the extractor
    turn,         \* the end of a turn, route.ts:441-450, next to its side tasks
    web,          \* the chat component of the web client
    conversation, \* the chat_messages rows of one identity and a history load
    profiles,     \* one customer_profiles row and the turns that write it
    users         \* the whatsapp_users row of one number and the calls for it

\* the state of the library functions, which the two handlers leave alone
aside == <<retry, field, history, extract, turn>>

\* the state of the web client and of the tables followed on their own
apart == <<web, conversation, profiles, users>>

vars == <<pc, msg, local, response, userImages, now, turns, received,
          storage, gallery, chat, aside, apart>>

\* the WhatsApp handler without the gallery table
serverVars == <<pc, msg, local, response, userImages, now, turns, received, storage>>

whatsappVars == <<pc, msg, local, response, userImages, now, turns, received,
                  storage, gallery>>

NoMessage == [from |-> "none", body |-> <<>>, media |-> "none"]

\* route.ts:231-233 and 354-355, before anything ran
InitLocal ==
    [ whatsappUserId |-> <<>>,
      hasImage |-> FALSE,
      freshImageInMessage |-> FALSE,
      imagePart |-> 0,
      userText |-> <<>>,
      generate |-> FALSE,
      model |-> "none",
      responseText |-> "",
      generatedImageUrl |-> NoDataUrl,
      publicUrl |-> 0,
      galleryOwner |-> <<>>,
      sent |-> <<>>,
      modelError |-> NoError,
      saved |-> <<>>,
      imageSent |-> FALSE ]

Init ==
    /\ pc = [r \in Reqs |-> "idle"]
    /\ msg = [r \in Reqs |-> NoMessage]
    /\ local = [r \in Reqs |-> InitLocal]
    /\ response = [r \in Reqs |-> NoResponse]
    /\ userImages = [p \in Phones |-> NoEntry]
    /\ now = 0
    /\ turns = 0
    /\ received = 0
    /\ storage = {}
    /\ gallery = <<>>
    /\ chat = [phase |-> "idle", request |-> MalformedRequest,
               response |-> NoChatResponse, imageModelCalled |-> FALSE]
    /\ retry = NoRetry
    /\ field = NoField
    /\ history = NoHistory
    /\ extract = NoExtract
    /\ turn = NoTurn
    /\ web = NoWeb
    /\ conversation = NoConversation
    /\ profiles = NoProfiles
    /\ users = NoUsers

(***************************************************************************)
(* The synchronous code of POST between two awaits                         *)
(***************************************************************************)
\* route.ts:287-305: the stored image is read only when this message
\* brought none; a stale entry is deleted
readCarryOver(l, phoneNumber, images, t) ==
    IF ~l.hasImage /\ images[phoneNumber] # NoEntry
    THEN IF storedImageIsFresh(images[phoneNumber], t)
         THEN [l |-> [l EXCEPT !.hasImage = TRUE,
                               !.imagePart = images[phoneNumber].base64],
               images |-> images]
         ELSE [l |-> l, images |-> deleteImage(images, phoneNumber)]
    ELSE [l |-> l, images |-> images]

\* route.ts:310, message.body || (hasImage ? '(Bild gesendet)' : '')
userTextOf(body, hasImage) ==
    IF body # <<>> THEN body ELSE IF hasImage THEN TEXT_IMAGE_SENT ELSE <<>>

\* route.ts:379 and 423
IMAGE_MODEL == "gemini-2.5-flash-image"
CHAT_MODEL == "gemini-2.5-flash"

\* route.ts:287-357 and 377-385, 421-426: from the end of the attachment
\* handling to the call of one of the two models
Dispatch(r, l, images) ==
    LET co == readCarryOver(l, msg[r].from, images, now)
        l2 == [co.l EXCEPT
                 !.userText = userTextOf(msg[r].body, co.l.hasImage),
                 !.generate = shouldGenerateImage(co.l.hasImage,
                                  co.l.freshImageInMessage, msg[r].body),
                 !.model = IF shouldGenerateImage(co.l.hasImage,
                                  co.l.freshImageInMessage, msg[r].body)
                           THEN IMAGE_MODEL ELSE CHAT_MODEL]
    IN  /\ userImages' = co.images
        /\ local' = [local EXCEPT ![r] = l2]
        /\ pc' = [pc EXCEPT ![r] = IF l2.generate THEN "imageModel" ELSE "chatModel"]

\* a changed copy of outerCatch: the error is thrown on
outerCatch_rethrows == UncaughtException

\* route.ts:496-504, the outermost catch
outerCatch == TwiMLResponse

\* route.ts:489-494
normalReturn == TwiMLResponse

\* route.ts:390-418: what the generation branch makes of the model call.
\* outcome.threw: withRetry rejected; otherwise the parts of candidates[0]
generationResult(outcome, imagePart) ==
    IF outcome.threw
    THEN [responseText |-> TEXT_GENERATION_UNAVAILABLE, generatedImageUrl |-> NoDataUrl]
    ELSE LET text == IF outcome.text THEN MODEL_TEXT ELSE ""
         IN  IF outcome.image
             THEN [responseText |-> IF text # "" THEN text ELSE TEXT_IMAGE_READY,
                   generatedImageUrl |-> dataUrl(imagePart)]
             ELSE [responseText |-> IF text # "" THEN text ELSE TEXT_NO_IMAGE,
                   generatedImageUrl |-> NoDataUrl]

\* a changed copy of orNotProcessed: the text goes out as the model left it
orNotProcessed_asIs(responseText) ==
    responseText

\* route.ts:437-439
orNotProcessed(responseText) ==
    IF responseText = "" THEN TEXT_NOT_PROCESSED ELSE responseText

\* a changed copy of hasGeneratedImage: the upload is not guarded
hasGeneratedImage_always(generatedImageUrl) ==
    TRUE

\* route.ts:453, if (generatedImageUrl)
hasGeneratedImage(generatedImageUrl) ==
    generatedImageUrl # NoDataUrl

\* a changed copy of uploadReply: without a public URL the caption is sent
uploadReply_captionOnly(publicUrl) ==
    [text |-> TEXT_IMAGE_CAPTION, mediaUrl |-> publicUrl]

\* route.ts:459-477: the message that follows the upload, with the image
\* when there is a public URL, pointing to the web site when there is none
uploadReply(publicUrl) ==
    IF publicUrl # 0
    THEN [text |-> TEXT_IMAGE_CAPTION, mediaUrl |-> publicUrl]
    ELSE [text |-> TEXT_UPLOAD_FAILED, mediaUrl |-> 0]

\* what withRetry throws to the handler: the rate-limit error of its last
\* attempt, or an error it does not retry
WithRetryErrors == {ErrTooManyRequests, ErrInternal}

ModelOutcomes ==
    [threw : {FALSE}, text : BOOLEAN, image : BOOLEAN, error : {NoError}]
        \cup [threw : {TRUE}, text : {FALSE}, image : {FALSE}, error : WithRetryErrors]

\* whatsapp-db.ts:30 and 42: the id column of the sender's whatsapp_users row
UserIdOf(phoneNumber) == <<"uuid", phoneNumber>>

\* whatsapp-db.ts:37-40: the insert failed, the phone number stands in
\* for the row id
phoneAsId(phoneNumber) == <<"phone", phoneNumber>>

(***************************************************************************)
(* POST, route.ts:192-506                                                  *)
(***************************************************************************)
\* the handler returns resp, at route.ts:489 ("done") or from the
\* outermost catch at route.ts:498 ("caught"); its bindings go out of scope
Return(r, resp, at) ==
    /\ response' = [response EXCEPT ![r] = resp]
    /\ pc' = [pc EXCEPT ![r] = at]
    /\ msg' = [msg EXCEPT ![r] = NoMessage]
    /\ local' = [local EXCEPT ![r] = InitLocal]

\* route.ts:195-207: the webhook arrives; formData() may reject
Receive(r) ==
    /\ pc[r] = "idle"
    /\ \A q \in Reqs : q < r => pc[q] # "idle"
    /\ turns < MaxTurns
    /\ turns' = turns + 1
    /\ \/ \E m \in Messages :
            /\ msg' = [msg EXCEPT ![r] = m]
            /\ pc' = [pc EXCEPT ![r] = "getUser"]
            /\ UNCHANGED <<local, response>>
       \/ /\ Return(r, outerCatch, "caught")
    /\ UNCHANGED <<userImages, now, received, storage, gallery, chat, aside, apart>>

\* route.ts:207, whatsapp-db.ts:23-43: the id of the sender's row
GetUser(r) ==
    /\ pc[r] = "getUser"
    /\ \E id \in {UserIdOf(msg[r].from), phoneAsId(msg[r].from)} :
          local' = [local EXCEPT ![r].whatsappUserId = id]
    /\ pc' = [pc EXCEPT ![r] = "loadContext"]
    /\ UNCHANGED <<msg, response, userImages, now, turns, received,
                   storage, gallery, chat, aside, apart>>

\* route.ts:210-240: profile and history are back; with an image attached
\* the download starts, otherwise the handler goes on to the model call
LoadContext(r) ==
    /\ pc[r] = "loadContext"
    /\ IF msg[r].media # "none" /\ isImageAttachment(msg[r].media)
       THEN /\ pc' = [pc EXCEPT ![r] = "fetchImage"]
            /\ UNCHANGED <<local, userImages>>
       ELSE Dispatch(r, local[r], userImages)
    /\ UNCHANGED <<msg, response, now, turns, received, storage, gallery, chat, aside, apart>>

\* route.ts:244-254 and 277-282: Twilio answered the download request
FetchImage(r) ==
    /\ pc[r] = "fetchImage"
    /\ \/ /\ pc' = [pc EXCEPT ![r] = "readImage"]
          /\ UNCHANGED <<local, userImages>>
       \/ Dispatch(r, local[r], userImages)
    /\ UNCHANGED <<msg, response, now, turns, received, storage, gallery, chat, aside, apart>>

\* route.ts:255-276: the bytes are here: store them, mark the image fresh;
\* or arrayBuffer() rejected (route.ts:280-282)
ReadImage(r) ==
    /\ pc[r] = "readImage"
    /\ \/ /\ received' = received + 1
          /\ Dispatch(r,
                [local[r] EXCEPT !.imagePart = received + 1,
                                 !.hasImage = TRUE,
                                 !.freshImageInMessage = TRUE],
                storeImage(userImages, msg[r].from, received + 1, msg[r].media, now))
       \/ /\ Dispatch(r, local[r], userImages)
          /\ UNCHANGED received
    /\ UNCHANGED <<msg, response, now, turns, storage, gallery, chat, aside, apart>>

\* route.ts:377-418 and 437-442: the image model call settled
ImageModelReturn(r) ==
    /\ pc[r] = "imageModel"
    /\ \E o \in ModelOutcomes :
         LET res == generationResult(o, local[r].imagePart)
         IN  /\ local' = [local EXCEPT
                   ![r].responseText = orNotProcessed(res.responseText),
                   ![r].generatedImageUrl = res.generatedImageUrl,
                   ![r].modelError = o.error]
    /\ pc' = [pc EXCEPT ![r] = "saveUser"]
    /\ UNCHANGED <<msg, response, userImages, now, turns, received, storage, gallery, chat, aside, apart>>

\* route.ts:421-442: the chat model call settled; a rejection of withRetry
\* is caught by the outermost catch only
ChatModelReturn(r) ==
    /\ pc[r] = "chatModel"
    /\ \/ \E text \in {MODEL_TEXT, ""} :
            /\ local' = [local EXCEPT ![r].responseText = orNotProcessed(text)]
            /\ pc' = [pc EXCEPT ![r] = "saveUser"]
            /\ UNCHANGED <<msg, response>>
       \/ \E error \in WithRetryErrors :
             /\ response' = [response EXCEPT ![r] = outerCatch]
             /\ pc' = [pc EXCEPT ![r] = "caught"]
             /\ msg' = [msg EXCEPT ![r] = NoMessage]
             /\ local' = [local EXCEPT ![r] =
                             [InitLocal EXCEPT !.sent = local[r].sent,
                                               !.modelError = error]]
    /\ UNCHANGED <<userImages, now, turns, received, storage, gallery, chat, aside, apart>>

\* route.ts:442-443: the user row was written (or the error logged)
SaveUserMessage(r) ==
    /\ pc[r] = "saveUser"
    /\ local' = [local EXCEPT ![r].saved = Append(@, "user")]
    /\ pc' = [pc EXCEPT ![r] = "saveAssistant"]
    /\ UNCHANGED <<msg, response, userImages, now, turns, received,
                   storage, gallery, chat, aside, apart>>

\* route.ts:443-450: the assistant row was written; the reply is handed
\* to sendWhatsAppMessage
SaveAssistantMessage(r) ==
    /\ pc[r] = "saveAssistant"
    /\ local' = [local EXCEPT ![r].sent =
                    Append(@, [text |-> local[r].responseText, mediaUrl |-> 0]),
                                ![r].saved = Append(@, "assistant")]
    /\ pc' = [pc EXCEPT ![r] = "sendText"]
    /\ UNCHANGED <<msg, response, userImages, now, turns, received,
                   storage, gallery, chat, aside, apart>>

\* route.ts:450-457 and 489-494: sendWhatsAppMessage resolved (true or
\* false, the value is dropped)
SendText(r) ==
    /\ pc[r] = "sendText"
    /\ IF hasGeneratedImage(local[r].generatedImageUrl)
       THEN /\ pc' = [pc EXCEPT ![r] = "upload"]
            /\ UNCHANGED <<msg, local, response>>
       ELSE Return(r, normalReturn, "done")
    /\ UNCHANGED <<userImages, now, turns, received, storage, gallery, chat, aside, apart>>

\* route.ts:457-462 and 472-477, uploadImageToStorageServer 23-68:
\* a public URL, or null
Upload(r) ==
    /\ pc[r] = "upload"
    /\ \/ LET url == Cardinality(storage) + 1
          IN  /\ storage' = storage \cup {[url |-> url, data |-> local[r].generatedImageUrl]}
              /\ local' = [local EXCEPT
                    ![r].publicUrl = url,
                    ![r].sent = Append(@, uploadReply(url))]
              /\ pc' = [pc EXCEPT ![r] = "sendImage"]
       \/ /\ local' = [local EXCEPT ![r].sent = Append(@, uploadReply(0))]
          /\ pc' = [pc EXCEPT ![r] = "sendUploadFailed"]
          /\ UNCHANGED storage
    /\ UNCHANGED <<msg, response, userImages, now, turns, received, gallery, chat, aside, apart>>

\* route.ts:462-466 and part_000:101-129: sendWhatsAppMessage resolved
\* with true or false, which is logged; the gallery owner is looked up
SendImage(r) ==
    /\ pc[r] = "sendImage"
    /\ \E sent \in BOOLEAN :
          local' = [local EXCEPT ![r].imageSent = sent]
    /\ pc' = [pc EXCEPT ![r] = "getLinked"]
    /\ UNCHANGED <<msg, response, userImages, now, turns, received,
                   storage, gallery, chat, aside, apart>>

\* route.ts:466-467, whatsapp-db.ts:46-54 and route.ts:71-78
GetLinked(r) ==
    /\ pc[r] = "getLinked"
    /\ \E owner \in {<<"web", msg[r].from>>, <<"whatsapp", local[r].whatsappUserId>>} :
          local' = [local EXCEPT ![r].galleryOwner = owner]
    /\ pc' = [pc EXCEPT ![r] = "saveGallery"]
    /\ UNCHANGED <<msg, response, userImages, now, turns, received,
                   storage, gallery, chat, aside, apart>>

\* route.ts:467-471 and 489-494, saveImageToGalleryServer 71-83: the row
\* is inserted (or the error logged), then the stored image is cleared
SaveGallery(r) ==
    /\ pc[r] = "saveGallery"
    /\ \/ gallery' = Append(gallery, [image_url |-> local[r].publicUrl,
                                      user_id |-> local[r].galleryOwner,
                                      archived |-> FALSE])
       \/ UNCHANGED gallery
    /\ userImages' = deleteImage(userImages, msg[r].from)
    /\ Return(r, normalReturn, "done")
    /\ UNCHANGED <<now, turns, received, storage, chat, aside, apart>>

\* route.ts:474-477 and 489-494
SendUploadFailed(r) ==
    /\ pc[r] = "sendUploadFailed"
    /\ Return(r, normalReturn, "done")
    /\ UNCHANGED <<userImages, now, turns, received, storage, gallery, chat, aside, apart>>

\* Twilio has the response; the slot is free for the next delivery
Finish(r) ==
    /\ pc[r] \in {"done", "caught"}
    /\ pc' = [pc EXCEPT ![r] = "idle"]
    /\ response' = [response EXCEPT ![r] = NoResponse]
    /\ local' = [local EXCEPT ![r] = InitLocal]
    /\ UNCHANGED <<msg, userImages, now, turns, received, storage, gallery, chat, aside, apart>>

\* Date.now() moves on between two steps: just under, or exactly, the TTL
TickSteps == {TTL_MS - 1, TTL_MS}

Tick ==
    /\ \E d \in TickSteps :
          /\ now + d <= MaxTicks * TTL_MS
          /\ now' = now + d
    /\ UNCHANGED <<pc, msg, local, response, userImages, turns, received,
                   storage, gallery, chat, aside, apart>>

Next ==
    \/ \E r \in Reqs : Receive(r)
    \/ \E r \in Reqs : GetUser(r)
    \/ \E r \in Reqs : LoadContext(r)
    \/ \E r \in Reqs : FetchImage(r)
    \/ \E r \in Reqs : ReadImage(r)
    \/ \E r \in Reqs : ImageModelReturn(r)
    \/ \E r \in Reqs : ChatModelReturn(r)
    \/ \E r \in Reqs : SaveUserMessage(r)
    \/ \E r \in Reqs : SaveAssistantMessage(r)
    \/ \E r \in Reqs : SendText(r)
    \/ \E r \in Reqs : Upload(r)
    \/ \E r \in Reqs : SendImage(r)
    \/ \E r \in Reqs : GetLinked(r)
    \/ \E r \in Reqs : SaveGallery(r)
    \/ \E r \in Reqs : SendUploadFailed(r)
    \/ \E r \in Reqs : Finish(r)
    \/ Tick

Spec == Init /\ [][Next]_vars

\* chat/route.ts:327-420: a request arrives. The handler answers at
\* once when it throws before any model call; otherwise it awaits a model
ChatReceive ==
    /\ chat.phase = "idle"
    /\ \E req \in ChatRequests :
          IF BranchOf[req] \in {"jsonThrows", "typeError"}
          THEN chat' = [phase |-> "idle", request |-> req]
                          @@ chatRespond(BranchOf[req], NotCalled, NotCalled, NotCalled)
          ELSE chat' = [phase |-> "model", request |-> req,
                        response |-> NoChatResponse, imageModelCalled |-> FALSE]
    /\ UNCHANGED <<whatsappVars, aside, apart>>

\* chat/route.ts:418-534: the model calls of the request settled
ChatSettle ==
    /\ chat.phase = "model"
    /\ \E primary \in (IF BranchOf[chat.request] \in {"imageOnly", "chat"}
                       THEN TextOutcomes ELSE {NotCalled}) :
       \E fallback \in (IF primary.threw THEN TextOutcomes ELSE {NotCalled}) :
       \E imageCall \in (IF BranchOf[chat.request] = "generate"
                         THEN CallOutcomes ELSE {NotCalled}) :
          chat' = [phase |-> "idle", request |-> chat.request]
                     @@ chatRespond(BranchOf[chat.request], primary, fallback, imageCall)
    /\ UNCHANGED <<whatsappVars, aside, apart>>

NextChat == ChatReceive \/ ChatSettle

SpecChat == Init /\ [][NextChat]_vars

(***************************************************************************)
(* A run of withRetry                                                      *)
(***************************************************************************)
\* route.ts:99-107: withRetry(fn, maxRetries) is called and calls fn
RetryStart ==
    /\ retry.at = "idle"
    /\ \E copy \in RetryCopies, maxRetries \in RetryLimits :
          retry' = [NoRetry EXCEPT !.at = "calling", !.copy = copy,
                                   !.maxRetries = maxRetries, !.calls = 1]
    /\ UNCHANGED <<whatsappVars, chat, field, history, extract, turn, apart>>

\* route.ts:107-120: fn() resolved, and withRetry returns its value; or it
\* rejected, and withRetry throws the error or starts the timer
RetryCallSettles ==
    /\ retry.at = "calling"
    /\ \/ retry' = [retry EXCEPT !.at = "returned"]
       \/ \E error \in ModelErrors :
             IF retryShouldGiveUp(retry.copy, error, retry.attempt, retry.maxRetries)
             THEN retry' = [retry EXCEPT !.at = "thrown",
                                         !.errors = Append(@, error),
                                         !.result = error]
             ELSE retry' = [retry EXCEPT !.at = "sleeping",
                                         !.errors = Append(@, error),
                                         !.delays = Append(@,
                                            retryDelay(INITIAL_DELAY_MS, retry.attempt))]
    /\ UNCHANGED <<whatsappVars, chat, field, history, extract, turn, apart>>

\* route.ts:120 and 106-107: the timer fired; attempt++ and fn is called again
RetryTimerFires ==
    /\ retry.at = "sleeping"
    /\ retry' = [retry EXCEPT !.at = "calling", !.attempt = @ + 1, !.calls = @ + 1]
    /\ UNCHANGED <<whatsappVars, chat, field, history, extract, turn, apart>>

\* the caller has the value or the error
RetryEnd ==
    /\ retry.at \in {"returned", "thrown"}
    /\ retry' = NoRetry
    /\ UNCHANGED <<whatsappVars, chat, field, history, extract, turn, apart>>

NextRetry == RetryStart \/ RetryCallSettles \/ RetryTimerFires \/ RetryEnd

\* the promise of fn settles and setTimeout fires
SpecRetry ==
    Init /\ [][NextRetry]_vars /\ WF_vars(RetryCallSettles) /\ WF_vars(RetryTimerFires)

(***************************************************************************)
(* Merges into an append-type field                                        *)
(***************************************************************************)
\* profile-extractor.ts:89-94 and 99: an extracted value is merged into
\* the stored one and the result is written
MergeField ==
    /\ field.merges < MaxMerges
    /\ \E newValue \in FieldValues :
          field' = [stored |-> mergeAppendField(field.stored, newValue),
                    before |-> field.stored,
                    newValue |-> newValue,
                    merges |-> field.merges + 1,
                    repeated |-> FALSE]
    /\ UNCHANGED <<whatsappVars, chat, retry, history, extract, turn, apart>>

\* the same value is extracted and merged once more
MergeFieldAgain ==
    /\ field.merges > 0
    /\ ~field.repeated
    /\ field' = [field EXCEPT !.stored = mergeAppendField(field.stored, field.newValue),
                              !.before = field.stored,
                              !.repeated = TRUE]
    /\ UNCHANGED <<whatsappVars, chat, retry, history, extract, turn, apart>>

\* another row: the column is NULL again
MergeReset ==
    /\ field # NoField
    /\ field' = NoField
    /\ UNCHANGED <<whatsappVars, chat, retry, history, extract, turn, apart>>

NextMerge == MergeField \/ MergeFieldAgain \/ MergeReset

SpecMerge == Init /\ [][NextMerge]_vars

(***************************************************************************)
(* Runs of extractAndUpdateProfile on one profile                          *)
(***************************************************************************)
ExtractStart ==
    /\ extract.run.at = "idle"
    /\ extract.runs < MaxExtractions
    /\ extract' = extractCalled(extract)
    /\ UNCHANGED <<whatsappVars, chat, retry, field, history, turn, apart>>

\* profile-extractor.ts:63-101: generateContent settled; the answer is
\* parsed and the updates are put together
ExtractModelReturns ==
    /\ extract.run.at = "model"
    /\ \E o \in ExtractionOutcomes :
          LET updates == updatesOf(o.extracted, extract.run.currentProfile)
              threw == o.kind \in {"modelError", "badJson", "jsonNull"}
              returns == \/ o.kind = "noText"
                         \/ keysOf(o.extracted) = {}
                         \/ updates = NoUpdates
          IN  extract' = [extract EXCEPT
                  !.run.outcome = o.kind,
                  !.run.extracted = o.extracted,
                  !.run.updates = IF threw \/ returns THEN NoUpdates ELSE updates,
                  !.run.at = IF threw THEN extractSettles(TRUE)
                             ELSE IF returns THEN extractSettles(FALSE)
                             ELSE "upsert"]
    /\ UNCHANGED <<whatsappVars, chat, retry, field, history, turn, apart>>

\* profile-extractor.ts:99-100 and whatsapp-db.ts:73-90: the upsert
\* settled; on an error it returns null
ExtractUpsertReturns ==
    /\ extract.run.at = "upsert"
    /\ \E error \in BOOLEAN :
          extract' = [extract EXCEPT
              !.profile = IF error THEN @ ELSE upsert(@, extract.run.updates),
              !.run.outcome = IF error THEN "upsertError" ELSE "written",
              !.run.at = extractSettles(FALSE)]
    /\ UNCHANGED <<whatsappVars, chat, retry, field, history, turn, apart>>

\* the settled promise is dropped
ExtractEnd ==
    /\ extract.run.at \in {"resolved", "rejected"}
    /\ extract' = [extract EXCEPT !.run = NoExtraction]
    /\ UNCHANGED <<whatsappVars, chat, retry, field, history, turn, apart>>

NextExtract == ExtractStart \/ ExtractModelReturns \/ ExtractUpsertReturns \/ ExtractEnd

SpecExtract == Init /\ [][NextExtract]_vars

(***************************************************************************)
(* The history table under inserts and one trim                            *)
(***************************************************************************)
\* whatsapp-db.ts:114-131: a row is inserted
HistoryInsert ==
    /\ history.inserts < MaxRows
    /\ \E key \in HistoryKeys, later \in BOOLEAN :
          history' = insertRow(history, key, later)
    /\ UNCHANGED <<whatsappVars, chat, retry, field, extract, turn, apart>>

TrimStart ==
    /\ history.trim.at = "idle"
    /\ \E key \in HistoryKeys, max \in TrimCaps :
          history' = trimCalled(history, key, max)
    /\ UNCHANGED <<whatsappVars, chat, retry, field, extract, turn, apart>>

\* whatsapp-db.ts:139-145: the count query settled
TrimCount ==
    /\ history.trim.at = "count"
    /\ \E countError \in BOOLEAN :
          LET count == Cardinality(rowsOf(history.rows, history.trim.key))
          IN  history' = [history EXCEPT
                  !.trim.count = IF countError THEN 0 ELSE count,
                  !.trim.failed = countError,
                  !.trim.at = IF countError \/ count = 0 \/ count <= history.trim.max
                              THEN "returned" ELSE "keepFrom"]
    /\ UNCHANGED <<whatsappVars, chat, retry, field, extract, turn, apart>>

\* whatsapp-db.ts:147-156: the query of the oldest row to keep settled
TrimKeepFrom ==
    /\ history.trim.at = "keepFrom"
    /\ \E queryError \in BOOLEAN :
          LET keepFrom == keepFromOf(history.rows, history.trim.key, history.trim.max)
          IN  history' = [history EXCEPT
                  !.trim.keepFrom = IF queryError THEN 0 ELSE keepFrom,
                  !.trim.failed = queryError,
                  !.trim.at = IF queryError \/ keepFrom = 0
                              THEN "returned" ELSE "delete"]
    /\ UNCHANGED <<whatsappVars, chat, retry, field, extract, turn, apart>>

\* whatsapp-db.ts:158-167: the delete settled; an error is logged
TrimDelete ==
    /\ history.trim.at = "delete"
    /\ \E deleteError \in BOOLEAN :
          history' = [history EXCEPT
              !.rows = IF deleteError THEN @
                       ELSE trimDelete(@, history.trim.key, history.trim.keepFrom),
              !.trim.failed = deleteError,
              !.trim.at = "returned"]
    /\ UNCHANGED <<whatsappVars, chat, retry, field, extract, turn, apart>>

\* the promise of the trim is dropped
TrimEnd ==
    /\ history.trim.at = "returned"
    /\ history' = [history EXCEPT !.trim = NoTrim]
    /\ UNCHANGED <<whatsappVars, chat, retry, field, extract, turn, apart>>

NextTrim ==
    HistoryInsert \/ TrimStart \/ TrimCount \/ TrimKeepFrom \/ TrimDelete \/ TrimEnd

SpecTrim == Init /\ [][NextTrim]_vars

(***************************************************************************)
(* The end of a turn next to its side tasks                                *)
(***************************************************************************)
\* a side task has settled or was not started
taskSettled(task) ==
    IF task = "trimChatHistory"
    THEN history.trim.at \in {"idle", "returned"}
    ELSE extract.run.at \in {"idle", "resolved", "rejected"}

\* route.ts:436-442: a turn has its reply text and calls saveWhatsAppMessage
\* for the user row; one run of each side task is followed at a time
TurnBegin ==
    /\ turn.at = "idle"
    /\ history.trim.at = "idle"
    /\ extract.run.at = "idle"
    /\ history.inserts + 2 <= MaxRows
    /\ extract.runs < MaxExtractions
    /\ turn.turns < MaxSideTurns
    /\ turn' = [turn EXCEPT !.at = "saveUser", !.turns = @ + 1]
    /\ UNCHANGED <<whatsappVars, chat, retry, field, history, extract, apart>>

\* route.ts:442-443 and whatsapp-db.ts:119-130: the insert of the user row
\* settled (an error is logged), the one of the assistant row is sent
TurnSaveUser ==
    /\ turn.at = "saveUser"
    /\ \E error \in BOOLEAN, later \in BOOLEAN :
          history' = IF error THEN [history EXCEPT !.inserts = @ + 1]
                     ELSE insertRow(history, TurnKey, later)
    /\ turn' = [turn EXCEPT !.at = "saveAssistant"]
    /\ UNCHANGED <<whatsappVars, chat, retry, field, extract, apart>>

\* route.ts:443-450: the insert of the assistant row settled;
\* trimChatHistory and extractAndUpdateProfile are called and
\* sendWhatsAppMessage is called
TurnSaveAssistant ==
    /\ turn.at = "saveAssistant"
    /\ \E error \in BOOLEAN, later \in BOOLEAN, max \in TrimCaps :
          history' = trimCalled(IF error THEN [history EXCEPT !.inserts = @ + 1]
                                ELSE insertRow(history, TurnKey, later),
                                TurnKey, max)
    /\ extract' = extractCalled(extract)
    /\ turn' = [turn EXCEPT !.at = "send"]
    /\ UNCHANGED <<whatsappVars, chat, retry, field, apart>>

\* route.ts:450: the reply is handed to sendWhatsAppMessage, once the
\* awaited side tasks have settled
TurnSendReply ==
    /\ turn.at = "send"
    /\ \A task \in awaitedBeforeReply : taskSettled(task)
    /\ turn' = [turn EXCEPT !.at = "replied"]
    /\ UNCHANGED <<whatsappVars, chat, retry, field, history, extract, apart>>

\* route.ts:489: the handler returns
TurnEnd ==
    /\ turn.at = "replied"
    /\ turn' = [turn EXCEPT !.at = "idle"]
    /\ UNCHANGED <<whatsappVars, chat, retry, field, history, extract, apart>>

NextSide ==
    \/ TurnBegin \/ TurnSaveUser \/ TurnSaveAssistant \/ TurnSendReply \/ TurnEnd
    \/ TrimCount \/ TrimKeepFrom \/ TrimDelete \/ TrimEnd
    \/ ExtractModelReturns \/ ExtractUpsertReturns \/ ExtractEnd

\* the reply is sent by the handler's own continuation; nothing makes the
\* side tasks go on
SpecSide == Init /\ [][NextSide]_vars /\ WF_vars(TurnSendReply)

(***************************************************************************)
(* The chat component: sendMessage, the gallery insert, the gallery page   *)
(***************************************************************************)
\* Chat.tsx:78-108: sendMessage posts the message to /api/chat
ClientSend ==
    /\ web.at = "idle"
    /\ web.sends < MaxWebSends
    /\ \E req \in ClientRequests, userId \in WebUserIds :
          web' = [web EXCEPT !.at = "fetch", !.sends = @ + 1,
                             !.request = req, !.userId = userId]
    /\ UNCHANGED <<whatsappVars, chat, aside, conversation, profiles, users>>

\* Chat.tsx:108-140: the response of the endpoint is here; a generated
\* image is handed to saveImageToGallery as it came, without awaiting;
\* or fetch rejected and the catch shows an error message
ClientResponse ==
    /\ web.at = "fetch"
    /\ \/ \E primary \in (IF BranchOf[web.request] \in {"imageOnly", "chat"}
                          THEN TextOutcomes ELSE {NotCalled}) :
          \E fallback \in (IF primary.threw THEN TextOutcomes ELSE {NotCalled}) :
          \E imageCall \in (IF BranchOf[web.request] = "generate"
                            THEN CallOutcomes ELSE {NotCalled}) :
             LET data == chatRespond(BranchOf[web.request], primary, fallback,
                                     imageCall).response
             IN  web' = [web EXCEPT
                     !.at = "idle",
                     !.saving = IF data.generatedImage
                                THEN Append(@, generatedImageOf(web.request))
                                ELSE @]
       \/ web' = [web EXCEPT !.at = "idle"]
    /\ UNCHANGED <<whatsappVars, chat, aside, conversation, profiles, users>>

\* whatsapp-db.ts:283-299: an insert of saveImageToGallery settled, with
\* the row or with an error
GalleryInsert ==
    /\ \E i \in 1..Len(web.saving) :
          /\ web' = [web EXCEPT !.saving =
                         SubSeq(@, 1, i - 1) \o SubSeq(@, i + 1, Len(@))]
          /\ \/ gallery' = Append(gallery, galleryRow(web.saving[i], web.userId))
             \/ UNCHANGED gallery
    /\ UNCHANGED <<serverVars, chat, aside, conversation, profiles, users>>

\* part_004:279-290: the gallery page loads the images of the user; on an
\* error getGalleryImages returns no rows
GalleryLoad ==
    /\ \E shown \in {getGalleryImages(gallery, web.userId), <<>>} :
          /\ shown # web.shown
          /\ web' = [web EXCEPT !.shown = shown]
    /\ UNCHANGED <<whatsappVars, chat, aside, conversation, profiles, users>>

NextWeb == ClientSend \/ ClientResponse \/ GalleryInsert \/ GalleryLoad

SpecWeb == Init /\ [][NextWeb]_vars

(***************************************************************************)
(* One conversation: rows are written, trimmed and loaded                  *)
(***************************************************************************)
\* whatsapp-db.ts:114-131: saveWhatsAppMessage inserted a row; the rows
\* are numbered in the order of their created_at
ConversationSave ==
    /\ conversation.written < MaxStoredRows
    /\ conversation' = [conversation EXCEPT
           !.rows = Append(@, conversation.written + 1),
           !.written = @ + 1]
    /\ UNCHANGED <<whatsappVars, chat, aside, web, profiles, users>>

\* route.ts:446 and whatsapp-db.ts:134-168: a run of trimChatHistory that
\* went through left the newest 50 rows
ConversationTrim ==
    /\ Len(conversation.rows) > TRIM_MAX
    /\ conversation' = [conversation EXCEPT !.rows = sliceFromEnd(@, TRIM_MAX)]
    /\ UNCHANGED <<whatsappVars, chat, aside, web, profiles, users>>

\* route.ts:210-227: the history of the turn is loaded and the block of
\* the request is cut out of it; on an error loadChatHistory returns []
ConversationLoad ==
    /\ conversation.loads < 1
    /\ \E failed \in BOOLEAN :
          conversation' = [conversation EXCEPT
              !.loads = @ + 1,
              !.failed = failed,
              !.before = conversation.rows,
              !.block = historyBlock(IF failed THEN <<>>
                                     ELSE loadChatHistory(conversation.rows, HISTORY_LIMIT))]
    /\ UNCHANGED <<whatsappVars, chat, aside, web, profiles, users>>

\* the turn is over; the next one loads again
ConversationForget ==
    /\ conversation.loads = 1
    /\ conversation' = [conversation EXCEPT !.loads = 0, !.failed = FALSE,
                                            !.before = <<>>, !.block = <<>>]
    /\ UNCHANGED <<whatsappVars, chat, aside, web, profiles, users>>

NextConversation ==
    ConversationSave \/ ConversationTrim \/ ConversationLoad \/ ConversationForget

SpecConversation == Init /\ [][NextConversation]_vars

(***************************************************************************)
(* Turns of one identity that write its profile                            *)
(***************************************************************************)
\* route.ts:210-213: a turn starts and loads the profile; getCustomerProfile
\* returns null on an error (whatsapp-db.ts:57-65)
ProfileLoad(t) ==
    /\ profiles.run[t].at = "idle"
    /\ profiles.started < MaxProfileTurns
    /\ \E profile \in {profiles.stored, NoProfile} :
          profiles' = [profiles EXCEPT
              !.started = @ + 1,
              !.run[t] = [at |-> "extract", profile |-> profile, updates |-> NoUpdates]]
    /\ UNCHANGED <<whatsappVars, chat, aside, web, conversation, users>>

\* route.ts:447 and profile-extractor.ts:44-97: after the reply the
\* extractor is called with the profile of the start of the turn; its
\* model call settled and the updates are merged against that profile
ProfileExtract(t) ==
    /\ profiles.run[t].at = "extract"
    /\ \E item \in ExtractedItems :
          profiles' = [profiles EXCEPT
              !.run[t].updates = updatesOf(extractedItem(item), profiles.run[t].profile),
              !.run[t].at = "upsert"]
    /\ UNCHANGED <<whatsappVars, chat, aside, web, conversation, users>>

\* profile-extractor.ts:99-100 and whatsapp-db.ts:68-90: the upsert settled
ProfileUpsert(t) ==
    /\ profiles.run[t].at = "upsert"
    /\ \E error \in BOOLEAN :
          profiles' = [profiles EXCEPT
              !.stored = IF error THEN @ ELSE upsert(@, profiles.run[t].updates),
              !.run[t] = NoProfileTurn]
    /\ UNCHANGED <<whatsappVars, chat, aside, web, conversation, users>>

NextProfiles ==
    \/ \E t \in ProfileTurns : ProfileLoad(t)
    \/ \E t \in ProfileTurns : ProfileExtract(t)
    \/ \E t \in ProfileTurns : ProfileUpsert(t)

SpecProfiles == Init /\ [][NextProfiles]_vars

(***************************************************************************)
(* Calls of getOrCreateWhatsAppUser for one phone number                   *)
(***************************************************************************)
\* route.ts:207: a handler calls getOrCreateWhatsAppUser(phoneNumber)
UserCall(c) ==
    /\ users.call[c].at = "idle"
    /\ users.started < MaxUserCalls
    /\ users' = [users EXCEPT !.started = @ + 1,
                              !.call[c] = [at |-> "select", returned |-> <<>>]]
    /\ UNCHANGED <<whatsappVars, chat, aside, web, conversation, profiles>>

\* whatsapp-db.ts:23-29: the select settled: with the row, whose id is
\* returned, or without data (no row, or the query failed)
UserSelect(c) ==
    /\ users.call[c].at = "select"
    /\ \E existing \in {users.row, FALSE} :
          users' = [users EXCEPT !.call[c] =
              IF existing
              THEN [at |-> "returned", returned |-> UserIdOf(Sender)]
              ELSE [at |-> "insert", returned |-> <<>>]]
    /\ UNCHANGED <<whatsappVars, chat, aside, web, conversation, profiles>>

\* whatsapp-db.ts:31-42: the insert settled: the new row's id is returned,
\* or the insert failed and the phone number is returned. A number that
\* has a row gets no second one (phone_number taken to be unique)
UserInsert(c) ==
    /\ users.call[c].at = "insert"
    /\ \E error \in (IF users.row THEN {TRUE} ELSE BOOLEAN) :
          users' = [users EXCEPT
              !.row = IF error THEN @ ELSE TRUE,
              !.call[c] = [at |-> "returned",
                           returned |-> IF error THEN phoneAsId(Sender)
                                        ELSE UserIdOf(Sender)]]
    /\ UNCHANGED <<whatsappVars, chat, aside, web, conversation, profiles>>

\* route.ts:207: the handler goes on with the value as whatsappUserId
UserReturn(c) ==
    /\ users.call[c].at = "returned"
    /\ users' = [users EXCEPT !.ids = @ \cup {users.call[c].returned},
                              !.call[c] = NoUserCall]
    /\ UNCHANGED <<whatsappVars, chat, aside, web, conversation, profiles>>

NextUsers ==
    \/ \E c \in UserCalls : UserCall(c)
    \/ \E c \in UserCalls : UserSelect(c)
    \/ \E c \in UserCalls : UserInsert(c)
    \/ \E c \in UserCalls : UserReturn(c)

SpecUsers == Init /\ [][NextUsers]_vars

(***************************************************************************)
(* Properties of the WhatsApp handler                                      *)
(***************************************************************************)
\* the bodies whose lower-cased text contains one of the keywords
BodiesWith(keywords) ==
    {b \in Bodies : \E k \in keywords : includes(toLowerCase(b), k)}

DirectBodies == BodiesWith(DirectKeywords)
StyleBodies == BodiesWith(StyleKeywords)

\* request r is past the branch decision of route.ts:347
Decided(r) == local[r].model # "none"

\* the step of request r that takes the branch decision
DecisionStep(r) ==
    /\ pc[r] \in {"loadContext", "fetchImage", "readImage"}
    /\ pc'[r] \in {"imageModel", "chatModel"}

\* the sender's cache entry as request r finds it is younger than 30 minutes
LiveEntry(r) ==
    /\ userImages[msg[r].from] # NoEntry
    /\ now - userImages[msg[r].from].timestamp < 30 * 60 * 1000

\* C1: a turn that received a fresh image and whose text holds no
\* direct-action keyword never takes the generation branch: the image model
\* is not called and nothing is generated; the chat model answers it,
\* style keywords or not.
C1_FreshImageGoesToChat ==
    \A r \in Reqs :
        (local[r].freshImageInMessage /\ msg[r].body \notin DirectBodies)
            => /\ local[r].model = CHAT_MODEL
               /\ ~local[r].generate
               /\ pc[r] \in {"chatModel", "saveUser", "saveAssistant", "sendText"}
               /\ local[r].generatedImageUrl = NoDataUrl

\* a fresh image with a style keyword in the text was answered by the chat model
C1_Witness ==
    \E r \in Reqs :
        /\ local[r].freshImageInMessage
        /\ msg[r].body \in StyleBodies
        /\ msg[r].body \notin DirectBodies
        /\ pc[r] = "sendText"
        /\ local[r].responseText = MODEL_TEXT

\* C2: a turn without a fresh image that finds a live entry for the sender
\* and whose lower-cased text holds a direct-action or a style keyword takes
\* the generation branch, and the image model gets the carried-over image.
C2_CarryOverGenerates ==
    [][\A r \in Reqs :
          ( /\ DecisionStep(r)
            /\ ~local'[r].freshImageInMessage
            /\ LiveEntry(r)
            /\ \/ msg[r].body \in DirectBodies
               \/ msg[r].body \in StyleBodies )
          => /\ pc'[r] = "imageModel"
             /\ local'[r].generate
             /\ local'[r].model = IMAGE_MODEL
             /\ local'[r].imagePart = userImages[msg[r].from].base64]_vars

\* a style keyword alone ("auf Marmor") sent the carried-over image to the
\* image model
C2_Witness ==
    \E r \in Reqs :
        /\ pc[r] = "imageModel"
        /\ ~local[r].freshImageInMessage
        /\ local[r].imagePart # 0
        /\ msg[r].body \in StyleBodies
        /\ msg[r].body \notin DirectBodies

\* C3 as stated: with a direct-action keyword and an image available, fresh
\* or carried over, the decision is GENERATE.
C3_DirectKeywordAlwaysGenerates ==
    \A r \in Reqs :
        (Decided(r) /\ msg[r].body \in DirectBodies /\ local[r].hasImage)
            => local[r].generate

\* C3: with a direct-action keyword and an image available, the decision is
\* GENERATE exactly when the image is carried over; a turn whose image
\* arrived in this very turn goes to the chat model.
C3_DirectKeywordGeneratesFromCarryOver ==
    \A r \in Reqs :
        (Decided(r) /\ msg[r].body \in DirectBodies /\ local[r].hasImage)
            => /\ local[r].generate <=> ~local[r].freshImageInMessage
               /\ local[r].model =
                    IF local[r].freshImageInMessage THEN CHAT_MODEL ELSE IMAGE_MODEL

\* "Direkt loslegen" with a fresh image waits for the chat model
C3_Witness ==
    \E r \in Reqs :
        /\ pc[r] = "chatModel"
        /\ local[r].freshImageInMessage
        /\ local[r].hasImage
        /\ msg[r].body \in DirectBodies

\* C4: a turn with no image context (no fresh image, and no live entry for
\* the sender) never takes the generation branch, whatever its text; and
\* the decision of a turn is a function of its text and its image context.
C4_NoImageContextNeverGenerates ==
    /\ [][\A r \in Reqs :
             (DecisionStep(r) /\ ~local'[r].freshImageInMessage /\ ~LiveEntry(r))
             => /\ pc'[r] = "chatModel"
                /\ ~local'[r].generate
                /\ local'[r].model = CHAT_MODEL
                /\ local'[r].imagePart = 0]_vars
    /\ [](\A r, q \in Reqs :
             ( /\ Decided(r) /\ Decided(q)
               /\ msg[r].body = msg[q].body
               /\ local[r].hasImage = local[q].hasImage
               /\ local[r].freshImageInMessage = local[q].freshImageInMessage )
             => local[r].generate = local[q].generate)

\* "Direkt loslegen" without any image context waits for the chat model
C4_Witness ==
    \E r \in Reqs :
        /\ pc[r] = "chatModel"
        /\ ~local[r].hasImage
        /\ userImages[msg[r].from] = NoEntry
        /\ msg[r].body \in DirectBodies

\* C5: a turn without a fresh image that finds an entry aged 30 minutes or
\* more does not use it and removes it; one that finds a younger entry uses
\* it and leaves it in place; and an empty slot stays empty until a newly
\* received image is stored in it.
C5_StaleEntryEvicted ==
    /\ [][\A r \in Reqs :
             ( /\ DecisionStep(r)
               /\ ~local'[r].freshImageInMessage
               /\ userImages[msg[r].from] # NoEntry )
             => IF now - userImages[msg[r].from].timestamp >= 30 * 60 * 1000
                THEN /\ ~local'[r].hasImage
                     /\ local'[r].imagePart = 0
                     /\ ~local'[r].generate
                     /\ userImages'[msg[r].from] = NoEntry
                ELSE /\ local'[r].hasImage
                     /\ local'[r].imagePart = userImages[msg[r].from].base64
                     /\ userImages'[msg[r].from] = userImages[msg[r].from]]_vars
    /\ [][\A p \in Phones :
             (userImages[p] = NoEntry /\ userImages'[p] # NoEntry)
             => /\ received' = received + 1
                /\ userImages'[p].base64 = received']_vars

\* the only image ever received was evicted: no entry is left, nothing was
\* generated, and a turn without attachment went on without an image
C5_Witness ==
    /\ received = 1
    /\ storage = {}
    /\ now >= 30 * 60 * 1000
    /\ \A p \in Phones : userImages[p] = NoEntry
    /\ \E r \in Reqs :
          /\ Decided(r)
          /\ msg[r].media = "none"
          /\ ~local[r].hasImage

\* C6: the step that receives an inbound image sets the sender's entry to
\* that image with the current time, whatever was stored before and
\* whatever the text says, and touches no other sender's entry; the cache
\* holds one entry per phone number.
C6_ReceivedImageStored ==
    /\ [][\A r \in Reqs :
             (pc[r] = "readImage" /\ local'[r].freshImageInMessage)
             => /\ received' = received + 1
                /\ local'[r].imagePart = received'
                /\ userImages'[msg[r].from] =
                      [base64 |-> received', mimeType |-> msg[r].media, timestamp |-> now]
                /\ \A p \in Phones \ {msg[r].from} : userImages'[p] = userImages[p]]_vars
    /\ [](\A p, q \in Phones :
             (userImages[p] # NoEntry /\ userImages[q] # NoEntry /\ p # q)
             => userImages[p].base64 # userImages[q].base64)

\* the second image of a sender took the place of the first
C6_Witness ==
    /\ received = 2
    /\ now = 0
    /\ storage = {}
    /\ \E p \in Phones :
          /\ userImages[p].base64 = 2
          /\ \A q \in Phones \ {p} : userImages[q] = NoEntry

\* request r is in a turn whose image model call returned an image
Generated(r) == local[r].generatedImageUrl # NoDataUrl

\* C7 as stated: when a turn in which the image model returned an image made
\* of the carried-over image ends, the sender's entry no longer holds that
\* image.
C7_EntryClearedAfterGeneration ==
    [][\A r \in Reqs :
          (pc[r] # "done" /\ pc'[r] = "done" /\ Generated(r))
          => userImages'[msg[r].from].base64 # local[r].imagePart]_vars

\* the turn ended past a failed generation
FailedGeneration(r) ==
    /\ local[r].generate
    /\ ~Generated(r)
    /\ pc[r] \in {"saveUser", "saveAssistant", "sendText"}

\* a step of request r in a turn whose generation failed writes nothing to
\* storage, gallery and cache, and never leads to the upload
FailedGenerationStep(r, texts) ==
    /\ (pc[r] = "imageModel" /\ pc'[r] # pc[r] /\ local'[r].generatedImageUrl = NoDataUrl)
          => /\ UNCHANGED <<storage, gallery, userImages>>
             /\ local'[r].responseText \in texts
    /\ (FailedGeneration(r) /\ pc'[r] # pc[r])
          => /\ UNCHANGED <<storage, gallery, userImages>>
             /\ pc'[r] \in {"saveAssistant", "sendText", "done"}

\* the one message of a turn whose generation failed is one of texts
FailedGenerationReply(r, texts) ==
    (FailedGeneration(r) /\ pc[r] = "sendText")
        => /\ local[r].sent = <<[text |-> local[r].responseText, mediaUrl |-> 0]>>
           /\ local[r].responseText \in texts

HandlerStep(r) ==
    \/ GetUser(r)
    \/ LoadContext(r)
    \/ FetchImage(r)
    \/ ReadImage(r)
    \/ ImageModelReturn(r)
    \/ ChatModelReturn(r)
    \/ SaveUserMessage(r)
    \/ SaveAssistantMessage(r)
    \/ SendText(r)
    \/ Upload(r)
    \/ SendImage(r)
    \/ GetLinked(r)
    \/ SaveGallery(r)
    \/ SendUploadFailed(r)

\* one handler at a time: the deliveries of Twilio come one after the other
NextSingle ==
    \/ Receive(1)
    \/ HandlerStep(1)
    \/ Finish(1)
    \/ Tick

\* every promise the handler awaits settles: database, model, storage and
\* Twilio calls answer or fail in the end
FairSpec == Init /\ [][NextSingle]_vars /\ WF_vars(HandlerStep(1))

\* One sender writes three times in a row: the deliveries of one phone
\* number, each with a direct keyword in its body, with or without an image
SenderMessages == {m \in Messages : m.from = Sender /\ m.body = BodyDirect}

\* route.ts:195-207: the webhook of a message of the sender arrives
ReceiveFromSender(r) ==
    /\ pc[r] = "idle"
    /\ \A q \in Reqs : q < r => pc[q] # "idle"
    /\ turns < MaxSenderTurns
    /\ turns' = turns + 1
    /\ \/ \E m \in SenderMessages :
            /\ msg' = [msg EXCEPT ![r] = m]
            /\ pc' = [pc EXCEPT ![r] = "getUser"]
            /\ UNCHANGED <<local, response>>
       \/ /\ Return(r, outerCatch, "caught")
    /\ UNCHANGED <<userImages, now, received, storage, gallery, chat, aside, apart>>

NextSender ==
    \/ \E r \in Reqs : ReceiveFromSender(r)
    \/ \E r \in Reqs : HandlerStep(r)
    \/ \E r \in Reqs : Finish(r)

SpecSender == Init /\ [][NextSender]_vars

\* the handler of request r has returned
Returned(r) == pc[r] \in {"done", "caught"}

\* C9: every run of the handler ends, and ends by returning the empty TwiML
\* document with status 200: after a parse failure, a failed user insert, a
\* failed model call, a failed upload, a failed gallery insert or a failed
\* send; it returns nothing else, and nothing before its end.
C9_AlwaysAcknowledges ==
    /\ [](\A r \in Reqs :
             response[r] = IF Returned(r) THEN TwiMLResponse ELSE NoResponse)
    /\ \A r \in Reqs : (pc[r] # "idle") ~> Returned(r)

\* the outermost catch answered for a request that failed
C9_Witness ==
    \E r \in Reqs :
        /\ pc[r] = "caught"
        /\ response[r] = TwiMLResponse
        /\ response[r].status = 200
        /\ response[r].body = "<Response></Response>"

(***************************************************************************)
(* Properties of the chat endpoint                                         *)
(***************************************************************************)
\* the texts the endpoint words itself for a failure
FriendlyErrorTexts ==
    {MSG_RATE_LIMIT, MSG_AUTH, MSG_NETWORK, MSG_SAFETY, MSG_GENERIC}

\* the endpoint has answered the request in chat.request
Answered == chat.phase = "idle" /\ chat.response # NoChatResponse

\* the request in chat.request has a message of fewer than 12 words
\* without any of the direct-generation keywords
VagueShortPrompt ==
    /\ ~chat.request.malformed
    /\ chat.request.hasMessage
    /\ wordCount(chat.request.message) < 12
    /\ \A k \in WebDirectKeywords : ~includes(toLowerCase(chat.request.message), k)

\* C25: for a request of the web chat whose message has fewer than 12 words
\* and no direct-generation keyword the image model is not called and the
\* response carries no generated image, whatever the image and the history
\* of the request and whatever the text models do.
C25_NoGenerationFromShortPrompt ==
    VagueShortPrompt
        => /\ ~chat.imageModelCalled
           /\ chat.response.generatedImage = FALSE
           /\ BranchOf[chat.request] # "generate"

\* a short request with an image keyword was answered by the text model
C25_Witness ==
    /\ Answered
    /\ VagueShortPrompt
    /\ chat.request.message = WebShortRequest
    /\ hasImageKeywords(chat.request)
    /\ BranchOf[chat.request] = "chat"
    /\ ~chat.imageModelCalled

\* C10: every response of the chat endpoint has status 200 and carries a
\* message: the model's text or one of the endpoint's own texts; a body that
\* is no JSON, a body without message or history, and a model call that
\* fails are answered with one of the five friendly error texts, and no
\* response carries the text of the error.
C10_ChatAlwaysAnswersFriendly ==
    Answered =>
        /\ chat.response.status = 200
        /\ chat.response.message.detail = <<>>
        /\ chat.response.message.text \in
              FriendlyErrorTexts \cup {MSG_IMAGE_READY, MSG_NO_ANSWER, MODEL_TEXT}
        /\ (chat.request.malformed \/ ~chat.request.hasMessage)
              => /\ chat.response.message = Plain(MSG_GENERIC)
                 /\ ~chat.response.generatedImage

\* a request whose model calls failed with a rate-limit error was answered
\* with status 200 and the rate-limit text
C10_Witness ==
    /\ Answered
    /\ ~chat.request.malformed
    /\ chat.request.hasMessage
    /\ chat.response.status = 200
    /\ chat.response.message = Plain(MSG_RATE_LIMIT)

(***************************************************************************)
(* Properties of withRetry                                                 *)
(***************************************************************************)
\* an error of the rate-limit class: status or code 429, or a message that
\* contains '429' or 'RESOURCE_EXHAUSTED'
RateLimitClass(error) ==
    \/ error.status = 429
    \/ \E i \in 1..Len(error.message) - 2 :
          SubSeq(error.message, i, i + 2) = <<"4", "2", "9">>
    \/ \E i \in 1..Len(error.message) - 17 :
          SubSeq(error.message, i, i + 17) =
             <<"R", "E", "S", "O", "U", "R", "C", "E", "_",
               "E", "X", "H", "A", "U", "S", "T", "E", "D">>

\* C11: withRetry ends in every run; it calls fn at most maxRetries + 1
\* times, 4 with the default; every call after the first follows an error of
\* the rate-limit class and a delay of 2 s, 4 s, 8 s; an error that is not of
\* that class is thrown as it is after the attempt that met it, and so is the
\* rate-limit error of the last attempt.
C11_WithRetryBounded ==
    /\ [](/\ retry.calls <= retry.maxRetries + 1
          /\ retry.calls <= 4
          /\ retry.at # "idle" => retry.calls = retry.attempt + 1
          /\ Len(retry.delays) = retry.attempt + (IF retry.at = "sleeping" THEN 1 ELSE 0)
          /\ \A i \in 1..Len(retry.delays) :
                /\ RateLimitClass(retry.errors[i])
                /\ retry.delays[i] = CASE i = 1 -> 2000 [] i = 2 -> 4000 [] i = 3 -> 8000
          /\ retry.at = "thrown" =>
                /\ retry.result = retry.errors[Len(retry.errors)]
                /\ Len(retry.errors) = retry.calls
                /\ \/ ~RateLimitClass(retry.result)
                   \/ retry.calls = retry.maxRetries + 1)
    /\ [][(retry.at = "calling" /\ retry'.at = "sleeping")
             => RateLimitClass(retry'.errors[Len(retry'.errors)])]_vars
    /\ (retry.at \in {"calling", "sleeping"}) ~> (retry.at \in {"returned", "thrown"})

\* the fourth call failed with a rate-limit error after delays of 2, 4 and 8 s
C11_Witness ==
    /\ retry.at = "thrown"
    /\ retry.maxRetries = 3
    /\ retry.calls = 4
    /\ retry.delays = <<2000, 4000, 8000>>
    /\ RateLimitClass(retry.result)

(***************************************************************************)
(* Properties of the turn: errors, side tasks, persistence                 *)
(***************************************************************************)
\* C12 as stated, for the WhatsApp handler: when the model call of a turn
\* failed with a rate-limit error after the retries of withRetry, the
\* handler hands sendWhatsAppMessage a text that tells the user to try again
\* later, in the generation branch and in the chat branch.
C12_RateLimitToldToUser ==
    \A r \in Reqs :
        (RateLimitClass(local[r].modelError) /\ pc[r] \in {"sendText", "caught"})
            => \E i \in 1..Len(local[r].sent) :
                  local[r].sent[i].text = TEXT_GENERATION_UNAVAILABLE

\* C13: extractAndUpdateProfile never ends in a rejection; when the
\* assistant row is saved both side tasks are started and the handler is
\* at once at the dispatch of the reply; and the reply is dispatched
\* whatever the side tasks do, even when they never go on
C13_SideTasksNeverBlockReply ==
    /\ [](extract.run.at # "rejected")
    /\ [][(turn.at = "saveAssistant" /\ turn'.at # "saveAssistant")
              => /\ turn'.at = "send"
                 /\ history'.trim.at = "count"
                 /\ extract'.run.at = "model"]_vars
    /\ [][(turn.at = "send" /\ history' = history /\ extract' = extract)
              => turn'.at \in {"send", "replied"}]_vars
    /\ (turn.at = "send") ~> (turn.at = "replied")

\* the reply was dispatched after the trim failed and while the extractor
\* waits for its upsert
C13_Witness ==
    /\ turn.at = "replied"
    /\ history.trim.at = "returned"
    /\ history.trim.failed
    /\ extract.run.at = "upsert"

\* the texts that tell the user the image exists and where to find it
GalleryPointerTexts == {TEXT_UPLOAD_FAILED}

\* the last message handed to the transport by request r points to the web site
ToldOfGallery(r) ==
    /\ local[r].sent # <<>>
    /\ local[r].sent[Len(local[r].sent)].text \in GalleryPointerTexts
    /\ local[r].sent[Len(local[r].sent)].mediaUrl = 0

\* C21: when the model returned an image and the upload gives no public URL,
\* the next message handed to the transport says that the image was generated
\* and points to the web site, and the handler then returns the normal
\* acknowledgment; the upload is only reached with a generated image.
C21_UploadFailureToldToUser ==
    /\ [](\A r \in Reqs : pc[r] \in {"upload", "sendUploadFailed"}
              => hasGeneratedImage(local[r].generatedImageUrl))
    /\ [][\A r \in Reqs :
            (pc[r] = "upload" /\ pc'[r] # "upload" /\ storage' = storage)
               => /\ pc'[r] = "sendUploadFailed"
                  /\ Len(local'[r].sent) = Len(local[r].sent) + 1
                  /\ local'[r].sent[Len(local'[r].sent)].text \in GalleryPointerTexts
                  /\ local'[r].sent[Len(local'[r].sent)].mediaUrl = 0
                  /\ local'[r].publicUrl = 0]_vars
    /\ [][\A r \in Reqs :
            (pc[r] = "sendUploadFailed" /\ pc'[r] # "sendUploadFailed")
               => pc'[r] = "done" /\ response'[r] = normalReturn]_vars

C21_Witness ==
    \E r \in Reqs :
        /\ pc[r] = "sendUploadFailed"
        /\ hasGeneratedImage(local[r].generatedImageUrl)
        /\ storage = {}
        /\ ToldOfGallery(r)

\* C22: when the image message was not delivered (sendWhatsAppMessage
\* resolved with false), the turn ends with the user told that the image
\* was generated and where to find it, and with the image in the gallery.
C22_DeliveryFailureKeepsArtifact ==
    [][\A r \in Reqs :
         (pc[r] = "saveGallery" /\ pc'[r] = "done" /\ ~local[r].imageSent)
            => /\ ToldOfGallery(r)
               /\ \E i \in 1..Len(gallery') :
                      gallery'[i].image_url = local[r].publicUrl]_vars

\* C26: a message with an image attachment reaches the model call without
\* generation and without an image other than its own, also when the
\* download of the attachment failed.
C26_AttachmentNeverUsesCarryOver ==
    [][\A r \in Reqs :
         (/\ pc[r] \in {"loadContext", "fetchImage", "readImage"}
          /\ pc'[r] \in {"imageModel", "chatModel"}
          /\ isImageAttachment(msg[r].media))
            => /\ ~local'[r].generate
               /\ local'[r].hasImage => local'[r].freshImageInMessage]_vars

\* C28: the clear at the end of a generation turn leaves a stored image
\* alone that is not the one the turn generated from.
C28_ClearRemovesOwnImageOnly ==
    [][\A r \in Reqs :
         (/\ pc[r] = "saveGallery" /\ pc'[r] = "done"
          /\ userImages[msg[r].from] # NoEntry
          /\ userImages[msg[r].from].base64 # local[r].imagePart)
            => userImages'[msg[r].from] = userImages[msg[r].from]]_vars

\* the steps of a turn that follow the text reply
AfterReply == {"upload", "sendImage", "getLinked", "saveGallery", "sendUploadFailed"}

\* request r has handed its text reply to the transport, as its first message
TextReplyDispatched(r) ==
    /\ local[r].sent # <<>>
    /\ local[r].sent[1].mediaUrl = 0
    /\ local[r].sent[1].text = local[r].responseText

C19_TurnPersistsBothRows ==
    [][\A r \in Reqs :
          (pc[r] \notin {"idle", "done", "caught"} /\ pc'[r] \in {"done", "caught"})
              => local[r].saved = <<"user", "assistant">>]_vars

(***************************************************************************)
(* Properties of the append-type fields                                    *)
(***************************************************************************)
\* the items of a stored value; an empty or NULL column holds none
ItemsOf(value) == IF value = NullValue \/ value = <<>> THEN <<>> ELSE split(value)

\* two items are the same one: equal without case after trimming
SameItem(x, y) == toLowerCase(trim(x)) = toLowerCase(trim(y))

HasItem(value, item) ==
    \E i \in 1..Len(ItemsOf(value)) : SameItem(ItemsOf(value)[i], item)

\* the items of newValue that existing does not hold, trimmed, in order
FreshItems(existing, newValue) ==
    LET fresh(item) == ~HasItem(existing, item)
    IN  SelectSeq([i \in 1..Len(split(newValue)) |-> trim(split(newValue)[i])], fresh)

\* existing, followed by the fresh items joined with ", "
AppendResult(existing, newValue) ==
    LET kept == IF existing = NullValue THEN <<>> ELSE existing
        fresh == FreshItems(existing, newValue)
    IN  IF fresh = <<>> THEN kept
        ELSE IF kept = <<>> THEN join(fresh)
        ELSE kept \o <<",", " ">> \o join(fresh)

\* C14: merging the same value a second time leaves the stored value as the
\* first merge made it, whatever was stored before (NULL included)
C14_MergeIdempotent ==
    field.repeated => field.stored = field.before

\* "A,b" is stored, "a" is merged twice, "A,b" is still stored
C14_Witness ==
    /\ field.repeated
    /\ field.merges = 2
    /\ field.newValue = <<"a">>
    /\ field.stored = <<"A", ",", "b">>

\* C15: a merge stores the value stored before, followed by those items of
\* the new value that it does not hold yet (compared without case after
\* trimming), in their casing and order, joined with ", "; the value stored
\* before when there is no such item
C15_MergeAppendsFreshItems ==
    field.merges > 0 => field.stored = AppendResult(field.before, field.newValue)

\* C16: the stored value of an append-type field never holds two items that
\* are equal without case after trimming
C16_FieldIsSet ==
    \A i, j \in 1..Len(ItemsOf(field.stored)) :
        i < j => ~SameItem(ItemsOf(field.stored)[i], ItemsOf(field.stored)[j])

(***************************************************************************)
(* Properties of trimChatHistory                                           *)
(***************************************************************************)
\* the rows that were in the table when the trim was called and are gone
TrimRemoved == history.trim.before \ history.rows

\* C20: a trim that returned after all its queries succeeded, with no row
\* inserted meanwhile, has removed rows of its user and channel only; none
\* when there were max rows or fewer; otherwise max rows are left, and
\* those removed are the oldest
C20_TrimKeepsNewestMax ==
    LET t == history.trim
        before == rowsOf(t.before, t.key)
        left == rowsOf(history.rows, t.key)
    IN  (t.at = "returned" /\ ~t.failed /\ ~t.inserted) =>
            /\ TrimRemoved \subseteq before
            /\ Cardinality(before) <= t.max => TrimRemoved = {}
            /\ Cardinality(before) > t.max =>
                  /\ Cardinality(left) <= t.max
                  /\ Cardinality(TrimRemoved) = Cardinality(before) - t.max
                  /\ \A gone \in TrimRemoved, kept \in left :
                        gone.created_at <= kept.created_at

(***************************************************************************)
(* Properties of the profile extractor                                     *)
(***************************************************************************)
\* the fields of the profile the extractor knows
RecognizedFields == REPLACE_FIELDS \cup APPEND_FIELDS

\* an extracted field the extractor must drop: not a string, or not a
\* field of the profile
Dropped(key, value) == value.kind # "string" \/ key \notin RecognizedFields

\* C17: after a run of the extractor wrote the profile, every replace
\* field for which it extracted a (non-empty) string holds that string,
\* whatever it held before
C17_ReplaceFieldOverwritten ==
    extract.run.outcome = "written" =>
        \A key \in ExtractedKeys \cap REPLACE_FIELDS :
            (extract.run.extracted[key].kind = "string"
                /\ extract.run.extracted[key].text # <<>>)
                => extract.profile[key] = extract.run.extracted[key].text

\* the name "a" was stored, "b" is extracted and stored
C17_Witness ==
    /\ extract.run.outcome = "written"
    /\ extract.run.currentProfile["customer_name"] = <<"a">>
    /\ extract.run.extracted["customer_name"] = [kind |-> "string", text |-> <<"b">>]
    /\ extract.profile["customer_name"] = <<"b">>

\* C18: the extractor changes a stored field only to write a recognized
\* field extracted as a string; a run whose extracted object is empty, or
\* holds only fields to drop, returns without an upsert and leaves the
\* profile as it is; no run ends in a rejection
C18_DroppedFieldsNeverStored ==
    /\ [][/\ \A key \in ExtractedKeys :
                extract'.profile[key] # extract.profile[key]
                    => ~Dropped(key, extract.run.extracted[key])
          /\ (/\ extract.run.at = "model"
              /\ extract'.run.at # "model"
              /\ extract'.run.outcome = "object"
              /\ \A key \in keysOf(extract'.run.extracted) :
                    Dropped(key, extract'.run.extracted[key]))
                 => /\ extract'.run.at = "resolved"
                    /\ extract'.profile = extract.profile]_vars
    /\ [](extract.run.at # "rejected" /\ extract.profile["hobby"] = NullValue)

\* a run on a written profile extracted a number for the name and a key
\* that is no field, and returned
C18_Witness ==
    /\ extract.run.at = "resolved"
    /\ extract.run.outcome = "object"
    /\ extract.run.extracted = [customer_name |-> [kind |-> "number", text |-> <<"7">>],
                                brand_colors |-> Absent,
                                hobby |-> [kind |-> "string", text |-> <<"a">>]]
    /\ extract.profile # NoProfile
    /\ extract.profile = extract.run.currentProfile

(***************************************************************************)
(* Properties of the gallery                                               *)
(***************************************************************************)
\* the URL is the public URL of an object in the bucket
IsUploaded(imageUrl) == \E o \in storage : o.url = imageUrl

\* C23: every gallery row holds the public URL of an uploaded image, and
\* so does every entry the gallery page shows, for rows written by the
\* WhatsApp handler and for rows written by the web chat.
C23_GalleryHoldsUploadedImages ==
    /\ \A i \in 1..Len(gallery) : IsUploaded(gallery[i].image_url)
    /\ \A i \in 1..Len(web.shown) : IsUploaded(web.shown[i])

(***************************************************************************)
(* Properties of the history window                                        *)
(***************************************************************************)
\* the n rows written last, oldest first
MostRecent(rows, n) ==
    [i \in 1..(IF Len(rows) < n THEN Len(rows) ELSE n) |->
        rows[Len(rows) - (IF Len(rows) < n THEN Len(rows) ELSE n) + i]]

\* C24: the block of a history that was loaded without an error is made of
\* the 10 rows written last, oldest first, or of all rows when there are
\* fewer, however many rows are stored.
C24_BlockIsTrailingWindow ==
    (conversation.loads = 1 /\ ~conversation.failed)
        => conversation.block = MostRecent(conversation.before, 10)

(***************************************************************************)
(* Properties of the profile under overlapping turns                       *)
(***************************************************************************)
\* C27: no step of any turn of the identity removes an item from the
\* append-type field: an item that is stored stays stored.
C27_AppendFieldOnlyGrows ==
    [][\A item \in ExtractedItems :
          HasItem(profiles.stored[GrowingField], item)
             => HasItem(profiles'.stored[GrowingField], item)]_vars

(***************************************************************************)
(* Properties of the identity                                              *)
(***************************************************************************)
\* C29: all calls of getOrCreateWhatsAppUser for one phone number return
\* the same value.
C29_IdentityIsStable ==
    \A c \in UserCalls :
        users.call[c].at = "returned"
            => users.ids \subseteq {users.call[c].returned}

====
